---- MODULE Spec2Model ----
(***************************************************************************)
(* ATLAS community-information-exchange portal: role resolution, the       *)
(* permission table, and the referral workflow over the shared document    *)
(* store.  Each principal runs one browser session of the application      *)
(* shell; every session reads the store through live snapshot listeners    *)
(* and writes through asynchronous document writes that land later.        *)
(***************************************************************************)
EXTENDS Integers, Sequences, FiniteSets, Bags, TLC

(***************************************************************************)
(* Bounds of the model                                                     *)
(***************************************************************************)
MaxReferrals == 1
MaxEnrollees == 1
MaxInflight == 1
\* The roles chosen in a role select where a session works through several
\* pages or two sessions work side by side; NextSwitch chooses among all.
RoleChoices == {"Admin", "Partner"}
\* The sessions that use the role switch in the referral workflow.
RoleSwitchers == {"u2"}
MaxNoteLen == 1
MaxClock == 2
MaxSampleLoads == 1
MaxCodes == 2
MaxResources == 2
MaxMissing == 1
MaxCodeCount == 6
MaxSubjects == 3
MaxDashboard == 2
MaxCohort == 40
MaxAssessments == 2
MaxSynced == 2
\* The runs of the timeline's effect.
MaxLoads == 2
\* The getDocs calls one page has awaiting their answer.
MaxQueries == 2
\* The runs of the operator's scripts against the store.
MaxScriptRuns == 1

\* The highest total score of an assessment
MaxTotalScore == 43

(***************************************************************************)
(* Principals.  u1 signs in with an e-mail address, u2 anonymously.        *)
(***************************************************************************)
Principals == {"u1", "u2"}

NoEmail == "<no-email>"

Email(p) == IF p = "u1" THEN "u1@atlas.org" ELSE NoEmail

(***************************************************************************)
(* Roles and the permission table                                          *)
(***************************************************************************)
NoRole == "<null>"
Missing == "<undefined>"
\* profileSnap.exists() is false
NoProfile == [exists |-> FALSE]

ROLES == {"Admin", "Enrollment Manager", "Partner"}

DefaultRole == "CPC"

LazyCreateRole == "Certified Peer Counselor"

\* Every role label the application ever writes or resolves.
RoleLabels == ROLES \cup {DefaultRole, LazyCreateRole}

PERMISSIONS ==
  [ CREATE_ENROLLEE  |-> <<"Admin", "Enrollment Manager">>,
    EDIT_ENROLLEE    |-> <<"Admin", "Enrollment Manager">>,
    DELETE_ENROLLEE  |-> <<"Admin">>,
    VIEW_ENROLLEE    |-> <<"Admin", "Enrollment Manager">>,
    CREATE_RESOURCE  |-> <<"Admin">>,
    EDIT_RESOURCE    |-> <<"Admin">>,
    DELETE_RESOURCE  |-> <<"Admin">>,
    VIEW_RESOURCE    |-> <<"Admin", "Enrollment Manager", "Partner">>,
    CREATE_REFERRAL  |-> <<"Admin", "Enrollment Manager">>,
    EDIT_REFERRAL    |-> <<"Admin", "Enrollment Manager">>,
    CANCEL_REFERRAL  |-> <<"Admin", "Enrollment Manager">>,
    VIEW_REFERRAL    |-> <<"Admin", "Enrollment Manager", "Partner">>,
    RESPOND_REFERRAL |-> <<"Admin", "Partner">>,
    CREATE_CARE_NOTE |-> <<"Admin", "Enrollment Manager">>,
    EDIT_CARE_NOTE   |-> <<"Admin", "Enrollment Manager">>,
    DELETE_CARE_NOTE |-> <<"Admin">>,
    LOAD_SAMPLE_DATA |-> <<"Admin">>,
    MANAGE_USERS     |-> <<"Admin">>,
    ADMIN_PORTAL     |-> <<"Admin">> ]

\* Property names every object literal inherits from Object.prototype; a
\* bracket lookup PERMISSIONS[name] finds them although the table does not
\* define them, and what it finds is not an array.
ObjectPrototypeKeys ==
  {"constructor", "toString", "toLocaleString", "valueOf", "hasOwnProperty",
   "isPrototypeOf", "propertyIsEnumerable", "__proto__", "__defineGetter__",
   "__defineSetter__", "__lookupGetter__", "__lookupSetter__"}

\* Action names that are neither in the table nor inherited.
UnknownActions == {"", "PURGE_STORE", "create_enrollee"}

ActionNames == DOMAIN PERMISSIONS \cup ObjectPrototypeKeys \cup UnknownActions

\* Array.prototype.includes over a role array.
Includes(arr, x) == \E i \in 1..Len(arr) : arr[i] = x

\* A check that compares the role with the first allowed role only.
HasPermissionFirstRoleOnly(role, permission) ==
  IF role = NoRole \/ role = ""
  THEN "false"
  ELSE IF permission \in DOMAIN PERMISSIONS
       THEN IF PERMISSIONS[permission][1] = role THEN "true" ELSE "false"
       ELSE IF permission \in ObjectPrototypeKeys
            THEN "TypeError"
            ELSE "false"

\* hasPermission(permission) of usePermissions, for a hook whose userRole is
\* role.  "TypeError" is the exception raised when the looked-up value has no
\* includes method.
HasPermissionResult(role, permission) ==
  IF role = NoRole \/ role = ""
  THEN "false"
  ELSE IF permission \in DOMAIN PERMISSIONS
       THEN IF Includes(PERMISSIONS[permission], role) THEN "true" ELSE "false"
       ELSE IF permission \in ObjectPrototypeKeys
            THEN "TypeError"
            ELSE "false"

\* hasPermission as used in a render guard (cond && <Button/>).
HasPermission(role, permission) == HasPermissionResult(role, permission) = "true"

\* A resolution that falls back to the default only when no profile exists.
ResolveRoleWithoutFallback(snap) ==
  IF snap # NoProfile THEN snap.role ELSE DefaultRole

\* The profile snapshot callback of usePermissions: the role it stores.
ResolveRole(snap) ==
  IF snap # NoProfile
  THEN IF snap.role = Missing \/ snap.role = "" THEN DefaultRole ELSE snap.role
  ELSE DefaultRole

isAdmin(role) == role = "Admin"

isPartner(role) == role = "Partner"

(***************************************************************************)
(* Navigation                                                              *)
(***************************************************************************)
NoPermission == "<none>"

partnerNavItems == {"provider-dashboard", "referral-inbox", "resources"}

\* item id -> permission the item requires
enrollmentManagerNavItems ==
  [ dashboard |-> NoPermission,
    enrollees |-> "VIEW_ENROLLEE",
    resources |-> "VIEW_RESOURCE",
    referrals |-> "VIEW_REFERRAL",
    create    |-> "CREATE_ENROLLEE" ]
  @@ ("journey-strip" :> "VIEW_ENROLLEE")
  @@ ("load-data" :> "LOAD_SAMPLE_DATA")

adminNavItems ==
  {"admin-portal", "dashboard", "enrollees", "journey-strip", "resources",
   "referrals", "create", "provider-dashboard", "referral-inbox",
   "load-data"}

Pages == adminNavItems \cup {"profile"}

\* The items the Sidebar renders for a hook whose userRole is role.
NavItems(role) ==
  IF isAdmin(role) THEN adminNavItems
  ELSE IF isPartner(role) THEN partnerNavItems
  ELSE { id \in DOMAIN enrollmentManagerNavItems :
           \/ enrollmentManagerNavItems[id] = NoPermission
           \/ HasPermission(role, enrollmentManagerNavItems[id]) }

(***************************************************************************)
(* Response notes: short texts over a blank and a letter, so that trim()   *)
(* has something to remove.                                                *)
(***************************************************************************)
NoteChars == {" ", "n"}

NoteInputs == UNION { [1..n -> NoteChars] : n \in 0..MaxNoteLen }

RECURSIVE TrimStart(_)
TrimStart(s) ==
  IF s = <<>> THEN <<>>
  ELSE IF Head(s) = " " THEN TrimStart(Tail(s)) ELSE s

RECURSIVE TrimEnd(_)
TrimEnd(s) ==
  IF s = <<>> THEN <<>>
  ELSE IF s[Len(s)] = " " THEN TrimEnd(SubSeq(s, 1, Len(s) - 1)) ELSE s

\* String.prototype.trim
Trim(s) == TrimEnd(TrimStart(s))

\* user?.email || 'Resource Provider'
RespondedBy(p) == IF Email(p) = NoEmail THEN "Resource Provider" ELSE Email(p)

(***************************************************************************)
(* State                                                                   *)
(***************************************************************************)
VARIABLES
  user,                 \* FirebaseProvider: the principal's session is signed in
  userRole,             \* usePermissions: role held by the session's hook
  currentPage,          \* App: page the ContentArea router shows
  switching,            \* Header: a role switch is being written
  respDialog,           \* ReferralInboxPage: selectedReferral of the open dialog
  responding,           \* ReferralInboxPage: a response is being written
  cancelingReferralId,  \* ReferralsPage: referral of the open confirm dialog
  saving,               \* ReferralsPage: a cancellation is being written
  isSubmitting,         \* RecordCreationPage / ResourceCard / LoadDataPage: the
                        \* mounted page's handler is running (isSubmitting, loading)
  profile,              \* store: users/{uid}/profile/main
  enrollees,            \* store: ids of the enrollee documents
  referrals,            \* store: the referral documents
  clock,                \* store: server time, read by serverTimestamp()
  inflight,             \* per session: writes submitted and not yet landed
  permQuery,            \* last hasPermission call: its role and action name
  permResult,           \* last hasPermission call: what it returned
  evalCall,             \* last view-model computation: the function and its arguments
  evalResult,           \* last view-model computation: what it returned
  permissionsLoading,   \* usePermissions of AppContent: loading
  hasSetInitialPage,    \* AppContent: the default page has been chosen
  shell,                \* which of the two application shells the session runs
  lastRejection,        \* how the session's last rejected write reached the user
  currentEnrolleeId,    \* App: the enrollee the profile page is asked to show
  enrolleeView,         \* EnrolleeProfilePage: loading, enrollee, and whether
                        \* the last snapshot found the document
  showDeleteDialog,     \* ProfileHeader: the delete confirmation is open
  deleting,             \* ProfileHeader: a delete is being written
  isUpdating,           \* PRAXISInsightEntry: a status update is being written
  insight,              \* store: the PRAXIS insight entry of enrollee 1's care plan
  enrolleeSeq,          \* store: how many enrollee documents addDoc has created
  referralSeq,          \* how many referral ids addDoc has generated
  userDocs,             \* store: the principals whose users/{uid} document exists
  enrolleesState,       \* MyEnrolleesPage / ResourceCard: enrollees, loading,
                        \* and the getDocs calls its listener is awaiting
  editingReferral,      \* ReferralsPage: referral of the open edit dialog
  adminPortal,          \* AdminPortalPage: loading, users, editingUserId
  script                \* the operator's seed or cleanup script: the call it
                        \* awaits, and the profile of the script's own user

vars == << user, userRole, currentPage, switching, respDialog, responding,
           cancelingReferralId, saving, isSubmitting, profile, enrollees,
           referrals, clock, inflight, permQuery, permResult, evalCall,
           evalResult, permissionsLoading, hasSetInitialPage, shell,
           lastRejection, currentEnrolleeId, enrolleeView, showDeleteDialog,
           deleting,
           isUpdating, insight, enrolleeSeq, referralSeq, userDocs, enrolleesState,
           editingReferral, adminPortal, script >>

uiVars == << respDialog, responding, cancelingReferralId, saving, isSubmitting >>

\* What the operator of the store holds: the user documents put there by
\* hand, and the script that is running.
operatorVars == << userDocs, script >>

\* The id sequences and what the operator holds.
idVars == << enrolleeSeq, referralSeq, operatorVars >>

storeVars == << profile, enrollees, referrals, clock, idVars >>

\* The local state of the enrollee list, the edit dialog and the admin
\* portal.
pageVars == << enrolleesState, editingReferral, adminPortal >>

evalVars == << evalCall, evalResult >>

\* The state of the application shell's hooks.
shellVars == << permissionsLoading, hasSetInitialPage, shell >>

\* The last pure computation of a session: a permission check or a
\* view-model function.
pureVars == << permQuery, permResult, evalCall, evalResult >>

\* The enrollee profile page and what it shows.
subjectVars == << currentEnrolleeId, enrolleeView, showDeleteDialog, deleting,
                 isUpdating,
                 insight >>

\* The state the handlers of the other pages and their landing writes do
\* not touch.
permVars == << pureVars, shellVars, lastRejection, subjectVars, pageVars >>

Null == "<none>"

NoReferral == [exists |-> FALSE]

NoSelection == [open |-> FALSE]

NoWrite == [kind |-> "none"]

NoQuery == [asked |-> FALSE]

NoCall == [fn |-> "none"]

NoInsight == [exists |-> FALSE]

\* EnrolleeProfilePage as mounted: useState(null), useState(true).  found
\* is what exists() said of the last snapshot delivered.
ProfilePageMounted == [loading |-> TRUE, enrollee |-> 0, found |-> TRUE]

\* No profile snapshot has been delivered to the page's listener yet.
NotDelivered == [delivered |-> FALSE]

\* MyEnrolleesPage / ResourceCard as mounted: useState([]), useState(true).
\* seen is the profile snapshot the listener handled last; asked holds,
\* for every run of the listener that is awaiting getDocs, the
\* assignedEnrollees of its query.
ListMounted ==
  [loading |-> TRUE, seen |-> NotDelivered, items |-> {}, asked |-> EmptyBag]

\* AdminPortalPage as mounted: useState([]), useState(true), useState(null).
\* users holds one record (id, role) for every user listed.
\* Its listener has not fired: no callback is reading profiles (todo holds
\* the user documents a running callback has not come to, usersData the
\* rows it has collected).
AdminPortalMounted ==
  [ loading |-> TRUE, users |-> {}, editing |-> Null,
    reading |-> FALSE, todo |-> {}, usersData |-> {} ]

\* No script is running and none has run.  run names the script, call the
\* call it awaits, todo and doc the documents of the snapshot its loop has
\* not come to and the one it is deleting, ids the ids of the enrollees it
\* has added, rid the id of its referral; profile is the profile document
\* of the anonymous user the seed script signs in as.
ScriptIdle ==
  [ run |-> "none", call |-> "none", todo |-> {}, doc |-> 0, ids |-> <<>>,
    rid |-> 0, runs |-> 0, profile |-> NoProfile ]

ReferralIds == 1..MaxReferrals

EnrolleeIds == 1..MaxEnrollees

\* LoadDataPage.loadSampleData adds three enrollee documents.
SampleSize == 3

\* The profile document the application writes on first creation.
NewProfile(role) == [role |-> role, assignedEnrollees |-> {}]

\* The referral document written by ResourceCard.handleSubmitReferral.
\* statusRole records the role held by the session whose write set the
\* current status, when it submitted the write.
NewReferral(w) ==
  [ status |-> "Pending",
    enrolleeId |-> w.enrolleeId,
    referringUserId |-> w.uid,
    notes |-> w.notes,
    responseNotes |-> Missing,
    respondedBy |-> Missing,
    respondedTimestamp |-> 0,
    statusRole |-> Null,
    landed |-> 0,
    lastResponse |-> NoWrite ]

(***************************************************************************)
(* What a session sees: the store with the session's own pending writes    *)
(* applied on top (the store client shows local writes to local listeners  *)
(* before they land, and takes them back when they fail).                  *)
(***************************************************************************)
ProfileAfter(doc, w) ==
  IF w.kind = "roleSwitch"
  THEN IF doc # NoProfile THEN [doc EXCEPT !.role = w.newRole]
       ELSE IF w.merge THEN NewProfile(w.newRole)
       ELSE doc
  ELSE IF w.kind = "lazyCreate"
  THEN NewProfile(LazyCreateRole)
  ELSE IF w.kind = "assign" /\ doc # NoProfile
  THEN [doc EXCEPT !.assignedEnrollees = @ \cup {w.enrolleeId}]
  ELSE IF w.kind = "sampleProfile"
  THEN [role |-> LazyCreateRole, assignedEnrollees |-> w.enrolleeIds]
  ELSE IF w.kind = "roleChange" /\ w.self /\ doc # NoProfile
  THEN [doc EXCEPT !.role = w.newRole]
  ELSE doc

RECURSIVE ProfileAfterAll(_, _)
ProfileAfterAll(doc, ws) ==
  IF ws = <<>> THEN doc
  ELSE ProfileAfterAll(ProfileAfter(doc, Head(ws)), Tail(ws))

LocalProfile(p) == ProfileAfterAll(profile[p], inflight[p])

\* The document a loop over a snapshot comes to next.  A snapshot lists
\* its documents by document id, which addDoc draws at random: any of the
\* documents the loop has not come to yet may be the next; 0 when none is
\* left.
NextDoc(ids) == IF ids = {} THEN {0} ELSE ids

\* addDoc shows the new referral to the session's listeners at once, under
\* the id the client has generated; a pending deleteDoc hides the document;
\* a pending updateDoc shows the fields it writes, a server timestamp among
\* them as null until the write has landed.
ReferralAfter(rid, doc, w) ==
  IF w.kind = "createReferral" /\ w.rid = rid THEN NewReferral(w)
  ELSE IF doc = NoReferral THEN doc
  ELSE IF w.kind = "clearAll" /\ w.call = "deleteReferral" /\ rid = w.doc
  THEN NoReferral
  ELSE IF w.kind = "respond" /\ w.rid = rid
  THEN [doc EXCEPT !.status = w.status,
                   !.responseNotes = w.notes,
                   !.respondedBy = w.by,
                   !.respondedTimestamp = 0]
  ELSE IF w.kind = "cancel" /\ w.rid = rid
  THEN [doc EXCEPT !.status = "Cancelled"]
  ELSE IF w.kind = "editNotes" /\ w.rid = rid
  THEN [doc EXCEPT !.notes = w.notes]
  ELSE doc

RECURSIVE ReferralAfterAll(_, _, _)
ReferralAfterAll(rid, doc, ws) ==
  IF ws = <<>> THEN doc
  ELSE ReferralAfterAll(rid, ReferralAfter(rid, doc, Head(ws)), Tail(ws))

LocalReferral(p, rid) == ReferralAfterAll(rid, referrals[rid], inflight[p])

\* Whether the session's listeners see the enrollee document: the store
\* with the session's own pending deletes applied.
LocalEnrolleeExists(p, eid) ==
  /\ eid \in enrollees
  /\ \A i \in 1..Len(inflight[p]) :
       /\ ~(inflight[p][i].kind = "clearAll"
            /\ inflight[p][i].call = "deleteEnrollee"
            /\ eid = inflight[p][i].doc)
       /\ ~(inflight[p][i].kind = "deleteEnrollee"
            /\ inflight[p][i].enrolleeId = eid)

\* What getDocs(query(enrolleesRef, where('__name__', 'in', assigned)))
\* answers the session: the enrollees asked for whose documents it sees.
QueryEnrollees(p, assigned) ==
  { eid \in assigned : LocalEnrolleeExists(p, eid) }

(***************************************************************************)
(* Initial state: nobody is signed in, every shell shows the dashboard,    *)
(* the store holds no profile, no enrollee and no referral.                *)
(***************************************************************************)
InitPages ==
  /\ currentPage = [p \in Principals |-> "dashboard"]
  /\ switching = [p \in Principals |-> FALSE]
  /\ respDialog = [p \in Principals |-> NoSelection]
  /\ responding = [p \in Principals |-> FALSE]
  /\ cancelingReferralId = [p \in Principals |-> 0]
  /\ saving = [p \in Principals |-> FALSE]
  /\ isSubmitting = [p \in Principals |-> FALSE]
  /\ inflight = [p \in Principals |-> <<>>]
  /\ permissionsLoading = [p \in Principals |-> TRUE]
  /\ hasSetInitialPage = [p \in Principals |-> FALSE]
  /\ lastRejection = [p \in Principals |-> Null]
  /\ currentEnrolleeId = [p \in Principals |-> 0]
  /\ enrolleeView = [p \in Principals |-> ProfilePageMounted]
  /\ showDeleteDialog = [p \in Principals |-> FALSE]
  /\ deleting = [p \in Principals |-> FALSE]
  /\ isUpdating = [p \in Principals |-> FALSE]
  /\ enrolleesState = [p \in Principals |-> ListMounted]
  /\ editingReferral = [p \in Principals |-> 0]
  /\ adminPortal = [p \in Principals |-> AdminPortalMounted]

\* The repository holds two application shells; the later one, whose pages
\* the actions below model, is the one deployed unless a specification
\* says otherwise.
InitUi ==
  /\ InitPages
  /\ shell = [p \in Principals |-> "part_002"]

Init ==
  /\ user = [p \in Principals |-> FALSE]
  /\ userRole = [p \in Principals |-> NoRole]
  /\ InitUi
  /\ profile = [p \in Principals |-> NoProfile]
  /\ enrollees = {}
  /\ enrolleeSeq = 0
  /\ referralSeq = 0
  /\ userDocs = {}
  /\ script = ScriptIdle
  /\ referrals = [rid \in ReferralIds |-> NoReferral]
  /\ clock = 0
  /\ insight = NoInsight
  /\ permQuery = NoQuery
  /\ permResult = Null
  /\ evalCall = NoCall
  /\ evalResult = NoCall

(***************************************************************************)
(* Sign-in and role resolution                                             *)
(***************************************************************************)
\* usePermissions: the effect of the first commit finds no db and no user
\* and ends loading.
PermissionsEffect(p) ==
  /\ ~user[p]
  /\ permissionsLoading[p]
  /\ permissionsLoading' = [permissionsLoading EXCEPT ![p] = FALSE]
  /\ UNCHANGED << user, userRole, currentPage, switching, uiVars, storeVars,
                  inflight, pureVars, hasSetInitialPage, shell, lastRejection,
                  pageVars, subjectVars >>

\* onAuthStateChanged delivers the signed-in user; the listener answers
\* after the effects of the first commit have run, and the render it
\* causes begins by running the effects still pending, AppContent's among
\* them.
SignIn(p) ==
  /\ ~user[p]
  /\ ~permissionsLoading[p]
  /\ hasSetInitialPage[p]
  /\ user' = [user EXCEPT ![p] = TRUE]
  /\ UNCHANGED << userRole, currentPage, switching, uiVars, storeVars,
                  inflight, permVars >>

\* usePermissions: the profile listener fires with the session's view of the
\* profile document.
ProfileSnapshot(p) ==
  /\ user[p]
  /\ userRole[p] # ResolveRole(LocalProfile(p))
  /\ userRole' = [userRole EXCEPT ![p] = ResolveRole(LocalProfile(p))]
  /\ permissionsLoading' = [permissionsLoading EXCEPT ![p] = FALSE]
  /\ UNCHANGED << user, currentPage, switching, uiVars, storeVars,
                  inflight, pureVars, hasSetInitialPage, shell, lastRejection,
                  pageVars, subjectVars >>

\* hasPermission(a) evaluated by the session's hook.
CheckPermission(p, a) ==
  /\ permQuery' = [asked |-> TRUE, role |-> userRole[p], action |-> a]
  /\ permResult' = HasPermissionResult(userRole[p], a)
  /\ UNCHANGED << user, userRole, currentPage, switching, uiVars, storeVars,
                  inflight, evalVars, shellVars, lastRejection, pageVars,
                  subjectVars >>

(***************************************************************************)
(* Navigation.  Leaving a page unmounts it: its local state is gone and    *)
(* the continuations of its pending writes no longer reach a component.    *)
(***************************************************************************)
Orphaned(ws) ==
  [i \in 1..Len(ws) |->
     IF ws[i].kind = "roleSwitch" THEN ws[i] ELSE [ws[i] EXCEPT !.live = FALSE]]

ShowPage(p, page) ==
  /\ currentPage' = [currentPage EXCEPT ![p] = page]
  /\ respDialog' = [respDialog EXCEPT ![p] = NoSelection]
  /\ responding' = [responding EXCEPT ![p] = FALSE]
  /\ cancelingReferralId' = [cancelingReferralId EXCEPT ![p] = 0]
  /\ saving' = [saving EXCEPT ![p] = FALSE]
  /\ isSubmitting' = [isSubmitting EXCEPT ![p] = FALSE]
  /\ enrolleeView' = [enrolleeView EXCEPT ![p] = ProfilePageMounted]
  /\ showDeleteDialog' = [showDeleteDialog EXCEPT ![p] = FALSE]
  /\ deleting' = [deleting EXCEPT ![p] = FALSE]
  /\ isUpdating' = [isUpdating EXCEPT ![p] = FALSE]
  /\ enrolleesState' = [enrolleesState EXCEPT ![p] = ListMounted]
  /\ editingReferral' = [editingReferral EXCEPT ![p] = 0]
  /\ adminPortal' = [adminPortal EXCEPT ![p] = AdminPortalMounted]

\* setCurrentPage called by the continuation of a write that has landed,
\* for the writes that stay pending: the page named is mounted unless it is
\* the page shown, which then stays as it is.
ContinueOn(p, page, ws) ==
  IF currentPage[p] = page
  THEN /\ inflight' = [inflight EXCEPT ![p] = ws]
       /\ UNCHANGED << currentPage, uiVars, enrolleeView, showDeleteDialog,
                       deleting, isUpdating, pageVars >>
  ELSE /\ ShowPage(p, page)
       /\ inflight' = [inflight EXCEPT ![p] = Orphaned(ws)]

\* Sidebar: click on a rendered navigation item.  The shell is rendered
\* once authentication has answered; when the sign-in has failed there is no
\* user and no role, the only item is the dashboard, which is the page
\* shown, and a click on it changes nothing.
Navigate(p, page) ==
  /\ user[p]
  /\ page \in NavItems(userRole[p])
  /\ page # currentPage[p]
  /\ ShowPage(p, page)
  /\ inflight' = [inflight EXCEPT ![p] = Orphaned(@)]
  /\ UNCHANGED << user, userRole, switching, storeVars, pureVars, shellVars,
                  lastRejection, currentEnrolleeId, insight >>

\* AppContent: the effect that chooses the default page from the role, once.
InitialPageEffect(p) ==
  /\ ~permissionsLoading[p]
  /\ ~hasSetInitialPage[p]
  /\ currentPage[p] = "dashboard"
  /\ IF isAdmin(userRole[p])
     THEN /\ ShowPage(p, "admin-portal")
          /\ inflight' = [inflight EXCEPT ![p] = Orphaned(@)]
     ELSE IF isPartner(userRole[p])
     THEN /\ ShowPage(p, "provider-dashboard")
          /\ inflight' = [inflight EXCEPT ![p] = Orphaned(@)]
     ELSE UNCHANGED << currentPage, uiVars, inflight, enrolleeView,
                       showDeleteDialog, deleting, isUpdating, pageVars >>
  /\ hasSetInitialPage' = [hasSetInitialPage EXCEPT ![p] = TRUE]
  /\ UNCHANGED << user, userRole, switching, storeVars, pureVars,
                  permissionsLoading, shell, lastRejection, currentEnrolleeId,
                  insight >>

\* Buttons inside pages that call setCurrentPage: the cards of the
\* enrollee list or, when the list is empty, its create button; the cancel
\* button of the creation form; the footer of the sample-data page; the
\* back button of the profile page's not-found view.
PageLinks(p) ==
  IF currentPage[p] = "enrollees"
  THEN IF enrolleesState[p].loading THEN {}
       ELSE IF enrolleesState[p].items = {} THEN {"create"} ELSE {"profile"}
  ELSE IF currentPage[p] = "create" /\ ~isSubmitting[p] THEN {"enrollees"}
  ELSE IF currentPage[p] = "load-data" THEN {"enrollees"}
  ELSE IF /\ currentPage[p] = "profile"
          /\ ~enrolleeView[p].loading
          /\ enrolleeView[p].enrollee = 0
  THEN {"enrollees"}
  ELSE {}

\* A card of MyEnrolleesPage (handleEnrolleeClick) chooses the enrollee the
\* profile page shows.
FollowLink(p, page) ==
  /\ user[p]
  /\ page \in PageLinks(p)
  /\ ShowPage(p, page)
  /\ IF page = "profile"
     THEN \E eid \in enrolleesState[p].items :
            currentEnrolleeId' = [currentEnrolleeId EXCEPT ![p] = eid]
     ELSE UNCHANGED currentEnrolleeId
  /\ inflight' = [inflight EXCEPT ![p] = Orphaned(@)]
  /\ UNCHANGED << user, userRole, switching, storeVars, pureVars, shellVars,
                  lastRejection, insight >>

(***************************************************************************)
(* Handlers: each submits one document write                               *)
(***************************************************************************)
CanSubmit(p) == user[p] /\ Len(inflight[p]) < MaxInflight

Submit(p, w) == inflight' = [inflight EXCEPT ![p] = Append(@, w)]

\* Header.handleRoleSwitch.  The later shell writes the role with
\* setDoc(profileRef, {role, updatedAt}, {merge: true}), the earlier one
\* with updateDoc(profileRef, {role}).
handleRoleSwitch(p, newRole) ==
  /\ CanSubmit(p)
  /\ ~switching[p]
  /\ userRole[p] # newRole
  /\ switching' = [switching EXCEPT ![p] = TRUE]
  /\ Submit(p, [kind |-> "roleSwitch", newRole |-> newRole,
                merge |-> shell[p] = "part_002", live |-> TRUE])
  /\ UNCHANGED << user, userRole, currentPage, uiVars, storeVars, permVars >>

\* MyEnrolleesPage: the profile listener fires.  With a profile that
\* assigns enrollees it asks for them with getDocs and awaits the answer;
\* with one that assigns none it shows the empty list; without a profile it
\* creates one, setDoc(profileRef, {name, role, email, assignedEnrollees:
\* []}), and goes on when that write has landed.
MyEnrolleesSnapshot(p) ==
  /\ user[p]
  /\ currentPage[p] = "enrollees"
  /\ enrolleesState[p].seen # LocalProfile(p)
  /\ IF LocalProfile(p) = NoProfile
     THEN /\ CanSubmit(p)
          /\ Submit(p, [kind |-> "lazyCreate", live |-> TRUE])
          /\ enrolleesState' = [enrolleesState EXCEPT ![p].seen = NoProfile]
     ELSE IF LocalProfile(p).assignedEnrollees = {}
     THEN /\ enrolleesState' = [enrolleesState EXCEPT ![p] =
               [@ EXCEPT !.seen = LocalProfile(p), !.items = {},
                         !.loading = FALSE]]
          /\ UNCHANGED inflight
     ELSE /\ BagCardinality(enrolleesState[p].asked) < MaxQueries
          /\ enrolleesState' = [enrolleesState EXCEPT ![p] =
               [@ EXCEPT !.seen = LocalProfile(p),
                         !.asked = @ (+) SetToBag(
                                     {LocalProfile(p).assignedEnrollees})]]
          /\ UNCHANGED inflight
  /\ UNCHANGED << user, userRole, currentPage, switching, uiVars, storeVars,
                  pureVars, shellVars, lastRejection, subjectVars,
                  editingReferral, adminPortal >>

\* MyEnrolleesPage: a getDocs the listener awaits answers, in any order
\* with the others; setEnrollees(enrolleesData), setLoading(false).
MyEnrolleesGetDocs(p) ==
  /\ user[p]
  /\ currentPage[p] = "enrollees"
  /\ \E assigned \in BagToSet(enrolleesState[p].asked) :
       enrolleesState' = [enrolleesState EXCEPT ![p] =
         [@ EXCEPT !.asked = @ (-) SetToBag({assigned}),
                   !.items = QueryEnrollees(p, assigned),
                   !.loading = FALSE]]
  /\ UNCHANGED << user, userRole, currentPage, switching, uiVars, storeVars,
                  inflight, pureVars, shellVars, lastRejection, subjectVars,
                  editingReferral, adminPortal >>

\* ResourceCard: the profile listener fires; it asks for the enrollees of
\* the referral dialog only when the profile exists and assigns some.
ResourceCardSnapshot(p) ==
  /\ user[p]
  /\ currentPage[p] = "resources"
  /\ enrolleesState[p].seen # LocalProfile(p)
  /\ IF /\ LocalProfile(p) # NoProfile
        /\ LocalProfile(p).assignedEnrollees # {}
     THEN /\ BagCardinality(enrolleesState[p].asked) < MaxQueries
          /\ enrolleesState' = [enrolleesState EXCEPT ![p] =
               [@ EXCEPT !.seen = LocalProfile(p),
                         !.asked = @ (+) SetToBag(
                                     {LocalProfile(p).assignedEnrollees})]]
     ELSE enrolleesState' = [enrolleesState EXCEPT ![p].seen = LocalProfile(p)]
  /\ UNCHANGED << user, userRole, currentPage, switching, uiVars, storeVars,
                  inflight, pureVars, shellVars, lastRejection, subjectVars,
                  editingReferral, adminPortal >>

\* ResourceCard: a getDocs the listener awaits answers;
\* setEnrollees(enrolleesData).
ResourceCardGetDocs(p) ==
  /\ user[p]
  /\ currentPage[p] = "resources"
  /\ \E assigned \in BagToSet(enrolleesState[p].asked) :
       enrolleesState' = [enrolleesState EXCEPT ![p] =
         [@ EXCEPT !.asked = @ (-) SetToBag({assigned}),
                   !.items = QueryEnrollees(p, assigned)]]
  /\ UNCHANGED << user, userRole, currentPage, switching, uiVars, storeVars,
                  inflight, pureVars, shellVars, lastRejection, subjectVars,
                  editingReferral, adminPortal >>

PendingKind(k) ==
  Cardinality({ << q, i >> \in Principals \X (1..MaxInflight + 1) :
                  i <= Len(inflight[q]) /\ inflight[q][i].kind = k })

\* RecordCreationPage.handleSubmit: addDoc(enrolleesRef, ...), then the
\* profile update once the document id is known.
handleSubmit(p) ==
  /\ CanSubmit(p)
  /\ currentPage[p] = "create"
  /\ ~isSubmitting[p]
  /\ enrolleeSeq + PendingKind("addEnrollee") < MaxEnrollees
  /\ isSubmitting' = [isSubmitting EXCEPT ![p] = TRUE]
  /\ Submit(p, [kind |-> "addEnrollee", live |-> TRUE, role |-> userRole[p]])
  /\ UNCHANGED << user, userRole, currentPage, switching, respDialog,
                  responding, cancelingReferralId, saving, storeVars,
                  permVars >>

ExistingReferrals == { rid \in ReferralIds : referrals[rid] # NoReferral }

\* The id addDoc generates for the next referral document, in the client
\* and before the write is sent: ids are never reused.
NewReferralId == referralSeq + 1

\* ResourceCard.handleSubmitReferral: addDoc(referralsRef, {..., status:
\* 'Pending', notes: notes.trim()})
handleSubmitReferral(p, eid, notes) ==
  /\ CanSubmit(p)
  /\ currentPage[p] = "resources"
  /\ ~isSubmitting[p]
  /\ eid \in enrolleesState[p].items
  /\ NewReferralId \in ReferralIds
  /\ referralSeq' = NewReferralId
  /\ isSubmitting' = [isSubmitting EXCEPT ![p] = TRUE]
  /\ Submit(p, [kind |-> "createReferral", rid |-> NewReferralId,
                enrolleeId |-> eid, uid |-> p, notes |-> Trim(notes),
                live |-> TRUE, role |-> userRole[p]])
  /\ UNCHANGED << user, userRole, currentPage, switching, respDialog,
                  responding, cancelingReferralId, saving, profile, enrollees,
                  referrals, clock, enrolleeSeq, operatorVars, permVars >>

\* The loads of the sample data that have enrollees still to add: those of
\* the sample-data page and the one of the seed script.
SampleLoadsRunning ==
  PendingKind("sampleEnrollees")
    + (IF script.run = "seedData" /\ Len(script.ids) < SampleSize
       THEN 1 ELSE 0)

\* There are ids left for the enrollees of one more load of the sample
\* data, by the page or by the seed script.
RoomForSample ==
  enrolleeSeq + SampleSize * (SampleLoadsRunning + 1)
    <= MaxEnrollees + SampleSize * MaxSampleLoads

\* LoadDataPage.loadSampleData: the sample enrollees are added with addDoc,
\* one after the other, then the session's profile is written.
loadSampleData(p) ==
  /\ CanSubmit(p)
  /\ currentPage[p] = "load-data"
  /\ ~isSubmitting[p]
  /\ RoomForSample
  /\ isSubmitting' = [isSubmitting EXCEPT ![p] = TRUE]
  /\ Submit(p, [kind |-> "sampleEnrollees", enrolleeIds |-> {},
                live |-> TRUE, role |-> userRole[p]])
  /\ UNCHANGED << user, userRole, currentPage, switching, respDialog,
                  responding, cancelingReferralId, saving, storeVars,
                  permVars >>

\* ReferralInboxPage.handleRespond: the Accept / Reject buttons of a card,
\* rendered while the card is Pending and the hook grants RESPOND_REFERRAL.
handleRespond(p, rid, action) ==
  /\ user[p]
  /\ currentPage[p] = "referral-inbox"
  /\ respDialog[p] = NoSelection
  /\ LocalReferral(p, rid) # NoReferral
  /\ LocalReferral(p, rid).status = "Pending"
  /\ HasPermission(userRole[p], "RESPOND_REFERRAL")
  /\ respDialog' = [respDialog EXCEPT ![p] =
                      [open |-> TRUE, id |-> rid, action |-> action]]
  /\ UNCHANGED << user, userRole, currentPage, switching, responding,
                  cancelingReferralId, saving, isSubmitting, storeVars,
                  inflight, permVars >>

\* ReferralInboxPage.submitResponse: updateDoc(referralRef, {status,
\* responseNotes, respondedBy, respondedTimestamp})
submitResponse(p, notes) ==
  /\ CanSubmit(p)
  /\ respDialog[p] # NoSelection
  /\ ~responding[p]
  /\ responding' = [responding EXCEPT ![p] = TRUE]
  /\ Submit(p, [kind |-> "respond", rid |-> respDialog[p].id,
                status |-> respDialog[p].action, notes |-> Trim(notes),
                by |-> RespondedBy(p), uid |-> p, live |-> TRUE,
                role |-> userRole[p]])
  /\ UNCHANGED << user, userRole, currentPage, switching, respDialog,
                  cancelingReferralId, saving, isSubmitting, storeVars,
                  permVars >>

\* ReferralsPage: the Cancel Referral button of a card of the session's own
\* referrals, rendered while the card is Pending and the hook grants
\* CANCEL_REFERRAL; it opens the confirmation dialog.
openCancelDialog(p, rid) ==
  /\ user[p]
  /\ currentPage[p] = "referrals"
  /\ cancelingReferralId[p] = 0
  /\ editingReferral[p] = 0
  /\ LocalReferral(p, rid) # NoReferral
  /\ LocalReferral(p, rid).referringUserId = p
  /\ LocalReferral(p, rid).status = "Pending"
  /\ HasPermission(userRole[p], "CANCEL_REFERRAL")
  /\ cancelingReferralId' = [cancelingReferralId EXCEPT ![p] = rid]
  /\ UNCHANGED << user, userRole, currentPage, switching, respDialog,
                  responding, saving, isSubmitting, storeVars, inflight,
                  permVars >>

\* ReferralsPage.handleCancelReferral: updateDoc(referralRef, {status: 'Cancelled'})
handleCancelReferral(p) ==
  /\ CanSubmit(p)
  /\ cancelingReferralId[p] # 0
  /\ ~saving[p]
  /\ saving' = [saving EXCEPT ![p] = TRUE]
  /\ Submit(p, [kind |-> "cancel", rid |-> cancelingReferralId[p],
                uid |-> p, live |-> TRUE, role |-> userRole[p]])
  /\ UNCHANGED << user, userRole, currentPage, switching, respDialog,
                  responding, cancelingReferralId, isSubmitting, storeVars,
                  permVars >>

\* ReferralsPage.handleEditClick: the Edit Notes button of a card of the
\* session's own referrals, rendered while the card is Pending and the hook
\* grants EDIT_REFERRAL; it opens the edit dialog.
handleEditClick(p, rid) ==
  /\ user[p]
  /\ currentPage[p] = "referrals"
  /\ editingReferral[p] = 0
  /\ cancelingReferralId[p] = 0
  /\ LocalReferral(p, rid) # NoReferral
  /\ LocalReferral(p, rid).referringUserId = p
  /\ LocalReferral(p, rid).status = "Pending"
  /\ HasPermission(userRole[p], "EDIT_REFERRAL")
  /\ editingReferral' = [editingReferral EXCEPT ![p] = rid]
  /\ UNCHANGED << user, userRole, currentPage, switching, uiVars, storeVars,
                  inflight, pureVars, shellVars, lastRejection, subjectVars,
                  enrolleesState, adminPortal >>

\* ReferralsPage.handleSaveEdit: updateDoc(referralRef, {notes: editNotes})
\* with the text of the dialog's textarea.
handleSaveEdit(p, notes) ==
  /\ CanSubmit(p)
  /\ editingReferral[p] # 0
  /\ ~saving[p]
  /\ saving' = [saving EXCEPT ![p] = TRUE]
  /\ Submit(p, [kind |-> "editNotes", rid |-> editingReferral[p],
                notes |-> notes, uid |-> p, live |-> TRUE,
                role |-> userRole[p]])
  /\ UNCHANGED << user, userRole, currentPage, switching, respDialog,
                  responding, cancelingReferralId, isSubmitting, storeVars,
                  permVars >>

\* The edit dialog is dismissed (onOpenChange, or its Cancel button while
\* nothing is being saved): setEditingReferral(null).
closeEditDialog(p) ==
  /\ editingReferral[p] # 0
  /\ editingReferral' = [editingReferral EXCEPT ![p] = 0]
  /\ UNCHANGED << user, userRole, currentPage, switching, uiVars, storeVars,
                  inflight, pureVars, shellVars, lastRejection, subjectVars,
                  enrolleesState, adminPortal >>

\* The response dialog is dismissed (onOpenChange, or its Cancel button
\* while no response is being written): setShowResponseDialog(false).
closeResponseDialog(p) ==
  /\ respDialog[p] # NoSelection
  /\ respDialog' = [respDialog EXCEPT ![p] = NoSelection]
  /\ UNCHANGED << user, userRole, currentPage, switching, responding,
                  cancelingReferralId, saving, isSubmitting, storeVars,
                  inflight, permVars >>

\* The confirmation dialog is dismissed (onOpenChange, or its 'No, Keep
\* It' button while nothing is being saved): setCancelingReferralId(null).
closeCancelDialog(p) ==
  /\ cancelingReferralId[p] # 0
  /\ cancelingReferralId' = [cancelingReferralId EXCEPT ![p] = 0]
  /\ UNCHANGED << user, userRole, currentPage, switching, respDialog,
                  responding, saving, isSubmitting, storeVars, inflight,
                  permVars >>

(***************************************************************************)
(* The store applies the oldest pending write of a session, and the        *)
(* handler that awaited it continues.                                      *)
(***************************************************************************)
HasWrite(p, k) == inflight[p] # <<>> /\ Head(inflight[p]).kind = k

Landed(p) == inflight' = [inflight EXCEPT ![p] = Tail(@)]

\* setDoc with merge: the role field is written, the other fields stay; a
\* document that does not exist is created with the role alone.
MergeRole(doc, newRole) ==
  IF doc = NoProfile THEN NewProfile(newRole) ELSE [doc EXCEPT !.role = newRole]

\* updateDoc: the role field of the document is written.  The store
\* applies it to an existing document only.
UpdateRole(doc, newRole) == [doc EXCEPT !.role = newRole]

\* The store has a document for the write: setDoc creates the one it does
\* not find, updateDoc is rejected with not-found.
CanApply(doc, w) == w.merge \/ doc # NoProfile

ApplyRoleSwitch(p) ==
  /\ HasWrite(p, "roleSwitch")
  /\ CanApply(profile[p], Head(inflight[p]))
  /\ profile' = [profile EXCEPT ![p] =
       IF Head(inflight[p]).merge
       THEN MergeRole(@, Head(inflight[p]).newRole)
       ELSE UpdateRole(@, Head(inflight[p]).newRole)]
  /\ switching' = [switching EXCEPT ![p] = FALSE]
  /\ Landed(p)
  /\ UNCHANGED << user, userRole, currentPage, uiVars, enrollees, referrals,
                  clock, idVars, permVars >>

\* setDoc without merge: the whole document is replaced.  The listener of
\* MyEnrolleesPage that awaited it then shows the empty list.
ApplyLazyCreate(p) ==
  /\ HasWrite(p, "lazyCreate")
  /\ profile' = [profile EXCEPT ![p] = NewProfile(LazyCreateRole)]
  /\ enrolleesState' = [enrolleesState EXCEPT ![p] =
       IF Head(inflight[p]).live
       THEN [@ EXCEPT !.loading = FALSE, !.items = {}] ELSE @]
  /\ Landed(p)
  /\ UNCHANGED << user, userRole, currentPage, switching, uiVars, enrollees,
                  referrals, clock, idVars, pureVars, shellVars,
                  lastRejection, subjectVars, editingReferral, adminPortal >>

\* The id addDoc gives the next enrollee document: ids are never reused.
NewEnrolleeId == enrolleeSeq + 1

\* addDoc lands; handleSubmit goes on to updateDoc(profileRef,
\* {assignedEnrollees: arrayUnion(newEnrolleeId)}).
ApplyAddEnrollee(p) ==
  /\ HasWrite(p, "addEnrollee")
  /\ NewEnrolleeId \in EnrolleeIds
  /\ enrollees' = enrollees \cup {NewEnrolleeId}
  /\ enrolleeSeq' = NewEnrolleeId
  /\ inflight' = [inflight EXCEPT ![p] =
       Append(Tail(@), [kind |-> "assign", enrolleeId |-> NewEnrolleeId,
                        live |-> Head(inflight[p]).live,
                        role |-> Head(inflight[p]).role])]
  /\ UNCHANGED << user, userRole, currentPage, switching, uiVars, profile,
                  referrals, clock, referralSeq, operatorVars, permVars >>

\* The profile update lands (updateDoc needs the document to exist);
\* handleSubmit then calls setCurrentEnrolleeId and setCurrentPage('profile'):
\* the profile page is mounted, or, when it is the page shown, its listener
\* moves to the new enrollee.
ApplyAssign(p) ==
  /\ HasWrite(p, "assign")
  /\ profile[p] # NoProfile
  /\ profile' = [profile EXCEPT ![p].assignedEnrollees =
                   @ \cup {Head(inflight[p]).enrolleeId}]
  /\ currentEnrolleeId' = [currentEnrolleeId EXCEPT ![p] =
                             Head(inflight[p]).enrolleeId]
  /\ ContinueOn(p, "profile", Tail(inflight[p]))
  /\ UNCHANGED << user, userRole, switching, enrollees, referrals, clock, idVars,
                  pureVars, shellVars, lastRejection, insight >>

\* One addDoc of the sample enrollees lands.  After the last of them
\* loadSampleData goes on to setDoc(userProfileRef, {name, role, email,
\* assignedEnrollees: enrolleeIds}, {merge: true}); before it, to the addDoc
\* of the next sample enrollee.
ApplySampleEnrollees(p) ==
  /\ HasWrite(p, "sampleEnrollees")
  /\ enrollees' = enrollees \cup {NewEnrolleeId}
  /\ enrolleeSeq' = NewEnrolleeId
  /\ LET w == Head(inflight[p])
         ids == w.enrolleeIds \cup {NewEnrolleeId}
     IN inflight' = [inflight EXCEPT ![p] =
          Append(Tail(@),
                 IF Cardinality(ids) = SampleSize
                 THEN [kind |-> "sampleProfile", enrolleeIds |-> ids,
                       live |-> w.live, role |-> w.role]
                 ELSE [w EXCEPT !.enrolleeIds = ids])]
  /\ UNCHANGED << user, userRole, currentPage, switching, uiVars, profile,
                  referrals, clock, referralSeq, operatorVars, permVars >>

\* setDoc with merge of the four profile fields: each field written replaces
\* the stored one, whether or not the document existed.
MergeSampleProfile(doc, ids) ==
  [role |-> LazyCreateRole, assignedEnrollees |-> ids]

ApplySampleProfile(p) ==
  /\ HasWrite(p, "sampleProfile")
  /\ profile' = [profile EXCEPT ![p] =
                   MergeSampleProfile(@, Head(inflight[p]).enrolleeIds)]
  /\ isSubmitting' = [isSubmitting EXCEPT ![p] =
                        IF Head(inflight[p]).live THEN FALSE ELSE @]
  /\ Landed(p)
  /\ UNCHANGED << user, userRole, currentPage, switching, respDialog,
                  responding, cancelingReferralId, saving, enrollees,
                  referrals, clock, idVars, permVars >>

\* addDoc lands: the document is stored under the id the client gave it.
ApplyCreateReferral(p) ==
  /\ HasWrite(p, "createReferral")
  /\ referrals' = [referrals EXCEPT ![Head(inflight[p]).rid] =
                     NewReferral(Head(inflight[p]))]
  /\ isSubmitting' = [isSubmitting EXCEPT ![p] =
                        IF Head(inflight[p]).live THEN FALSE ELSE @]
  /\ Landed(p)
  /\ UNCHANGED << user, userRole, currentPage, switching, respDialog,
                  responding, cancelingReferralId, saving, profile, enrollees,
                  clock, idVars, permVars >>

\* A store that keeps the notes of the first response when a second one lands.
RespondedKeepingFirstNotes(doc, w, now) ==
  [doc EXCEPT !.status = w.status,
              !.responseNotes = IF doc.landed = 0 THEN w.notes ELSE @,
              !.respondedBy = w.by,
              !.respondedTimestamp = now,
              !.statusRole = w.role,
              !.landed = IF @ < 2 THEN @ + 1 ELSE @,
              !.lastResponse = [kind |-> "respond", status |-> w.status,
                                notes |-> w.notes, by |-> w.by,
                                uid |-> w.uid, at |-> now]]

\* updateDoc of the four response fields: the document's other fields stay.
Responded(doc, w, now) ==
  [doc EXCEPT !.status = w.status,
              !.responseNotes = w.notes,
              !.respondedBy = w.by,
              !.respondedTimestamp = now,
              !.statusRole = w.role,
              !.landed = IF @ < 2 THEN @ + 1 ELSE @,
              !.lastResponse = [kind |-> "respond", status |-> w.status,
                                notes |-> w.notes, by |-> w.by,
                                uid |-> w.uid, at |-> now]]

ApplyRespond(p) ==
  /\ HasWrite(p, "respond")
  /\ referrals[Head(inflight[p]).rid] # NoReferral
  /\ clock < MaxClock
  /\ clock' = clock + 1
  /\ referrals' = [referrals EXCEPT ![Head(inflight[p]).rid] =
                     Responded(@, Head(inflight[p]), clock + 1)]
  /\ IF Head(inflight[p]).live
     THEN /\ respDialog' = [respDialog EXCEPT ![p] = NoSelection]
          /\ responding' = [responding EXCEPT ![p] = FALSE]
     ELSE UNCHANGED << respDialog, responding >>
  /\ Landed(p)
  /\ UNCHANGED << user, userRole, currentPage, switching,
                  cancelingReferralId, saving, isSubmitting, profile,
                  enrollees, idVars, permVars >>

\* updateDoc of the status field alone.
Cancelled(doc, w) ==
  [doc EXCEPT !.status = "Cancelled", !.statusRole = w.role,
              !.lastResponse = NoWrite]

ApplyCancel(p) ==
  /\ HasWrite(p, "cancel")
  /\ referrals[Head(inflight[p]).rid] # NoReferral
  /\ referrals' = [referrals EXCEPT ![Head(inflight[p]).rid] =
                     Cancelled(@, Head(inflight[p]))]
  /\ IF Head(inflight[p]).live
     THEN /\ cancelingReferralId' = [cancelingReferralId EXCEPT ![p] = 0]
          /\ saving' = [saving EXCEPT ![p] = FALSE]
     ELSE UNCHANGED << cancelingReferralId, saving >>
  /\ Landed(p)
  /\ UNCHANGED << user, userRole, currentPage, switching, respDialog,
                  responding, isSubmitting, profile, enrollees, clock, idVars,
                  permVars >>

\* updateDoc of the notes field alone.
NotesEdited(doc, w) == [doc EXCEPT !.notes = w.notes]

ApplyEditNotes(p) ==
  /\ HasWrite(p, "editNotes")
  /\ referrals[Head(inflight[p]).rid] # NoReferral
  /\ referrals' = [referrals EXCEPT ![Head(inflight[p]).rid] =
                     NotesEdited(@, Head(inflight[p]))]
  /\ IF Head(inflight[p]).live
     THEN /\ editingReferral' = [editingReferral EXCEPT ![p] = 0]
          /\ saving' = [saving EXCEPT ![p] = FALSE]
     ELSE UNCHANGED << editingReferral, saving >>
  /\ Landed(p)
  /\ UNCHANGED << user, userRole, currentPage, switching, respDialog,
                  responding, cancelingReferralId, isSubmitting, profile,
                  enrollees, clock, idVars, pureVars, shellVars,
                  lastRejection, subjectVars, enrolleesState, adminPortal >>

(***************************************************************************)
(* The enrollee profile page: the document listener, the delete of the     *)
(* enrollee, the care plan's PRAXIS insight; and LoadDataPage.clearAllData *)
(***************************************************************************)
\* setEnrollee only when the snapshot has the document.
SnapshotView(view, eid, exists) ==
  IF exists
  THEN [loading |-> FALSE, enrollee |-> eid, found |-> TRUE]
  ELSE [view EXCEPT !.loading = FALSE, !.found = FALSE]

\* EnrolleeProfilePage: the listener of the enrollee document fires.
EnrolleeSnapshot(p) ==
  /\ user[p]
  /\ currentPage[p] = "profile"
  /\ currentEnrolleeId[p] # 0
  /\ LET view == SnapshotView(enrolleeView[p], currentEnrolleeId[p],
                              LocalEnrolleeExists(p, currentEnrolleeId[p]))
     IN /\ view # enrolleeView[p]
        /\ enrolleeView' = [enrolleeView EXCEPT ![p] = view]
  /\ UNCHANGED << user, userRole, currentPage, switching, uiVars, storeVars,
                  inflight, pureVars, shellVars, lastRejection, pageVars,
                  currentEnrolleeId, showDeleteDialog, deleting, isUpdating,
                  insight >>

\* The page shows the enrollee: it has stopped loading and holds a document.
ShowsEnrollee(p) ==
  /\ currentPage[p] = "profile"
  /\ ~enrolleeView[p].loading
  /\ enrolleeView[p].enrollee # 0

\* ProfileHeader: the Delete button, rendered while the hook grants
\* DELETE_ENROLLEE; it opens the confirmation dialog.
openDeleteDialog(p) ==
  /\ user[p]
  /\ ShowsEnrollee(p)
  /\ HasPermission(userRole[p], "DELETE_ENROLLEE")
  /\ ~showDeleteDialog[p]
  /\ showDeleteDialog' = [showDeleteDialog EXCEPT ![p] = TRUE]
  /\ UNCHANGED << user, userRole, currentPage, switching, uiVars, storeVars,
                  inflight, pureVars, shellVars, lastRejection, pageVars,
                  currentEnrolleeId, enrolleeView, deleting, isUpdating,
                  insight >>

\* The confirmation dialog is dismissed (onOpenChange, or its Cancel
\* button while no delete is being written): setShowDeleteDialog(false).
closeDeleteDialog(p) ==
  /\ showDeleteDialog[p]
  /\ showDeleteDialog' = [showDeleteDialog EXCEPT ![p] = FALSE]
  /\ UNCHANGED << user, userRole, currentPage, switching, uiVars, storeVars,
                  inflight, pureVars, shellVars, lastRejection, pageVars,
                  currentEnrolleeId, enrolleeView, deleting, isUpdating,
                  insight >>

\* ProfileHeader.handleDelete: the Delete button of the confirmation
\* dialog, disabled while a delete is being written.
handleDelete(p) ==
  /\ CanSubmit(p)
  /\ ShowsEnrollee(p)
  /\ showDeleteDialog[p]
  /\ ~deleting[p]
  /\ deleting' = [deleting EXCEPT ![p] = TRUE]
  /\ Submit(p, [kind |-> "deleteEnrollee",
                enrolleeId |-> enrolleeView[p].enrollee,
                live |-> TRUE, role |-> userRole[p]])
  /\ UNCHANGED << user, userRole, currentPage, switching, uiVars, storeVars,
                  pureVars, shellVars, lastRejection, pageVars, currentEnrolleeId,
                  enrolleeView, showDeleteDialog, isUpdating, insight >>

\* deleteDoc(enrolleeRef) lands: the enrollee document is gone, nothing
\* else is written; handleDelete then calls setCurrentPage('enrollees').
ApplyDeleteEnrollee(p) ==
  /\ HasWrite(p, "deleteEnrollee")
  /\ enrollees' = enrollees \ {Head(inflight[p]).enrolleeId}
  /\ ContinueOn(p, "enrollees", Tail(inflight[p]))
  /\ UNCHANGED << user, userRole, switching, profile, referrals, clock, idVars,
                  pureVars, shellVars, lastRejection, currentEnrolleeId,
                  insight >>

\* LoadDataPage.clearAllData, confirmed in window.confirm.  It works through
\* the collections resources, enrollees and referrals; the resources
\* collection is not part of the model, its getDocs and deletes are the
\* first call awaited.
clearAllData(p) ==
  /\ CanSubmit(p)
  /\ currentPage[p] = "load-data"
  /\ ~isSubmitting[p]
  /\ isSubmitting' = [isSubmitting EXCEPT ![p] = TRUE]
  /\ Submit(p, [kind |-> "clearAll", call |-> "resources", todo |-> {},
                doc |-> 0,
                live |-> TRUE, role |-> userRole[p]])
  /\ UNCHANGED << user, userRole, currentPage, switching, respDialog,
                  responding, cancelingReferralId, saving, storeVars,
                  permVars >>

\* The call clearAllData awaits after the one that has just answered, given
\* the documents still to delete: the deletes of a collection, then the
\* getDocs of the next collection; "done" after the last.
NextCall(call, todo) ==
  IF call \in {"resources"} THEN "getEnrollees"
  ELSE IF call \in {"getEnrollees", "deleteEnrollee"}
  THEN IF todo = {} THEN "getReferrals" ELSE "deleteEnrollee"
  ELSE IF todo = {} THEN "done" ELSE "deleteReferral"

\* The call clearAllData awaits is answered: a getDocs gives the documents
\* of its collection, a deleteDoc removes the document it names and the
\* loop comes to the next; the profiles are not written.  After the last
\* call the handler finishes.
ApplyClearAll(p) ==
  /\ HasWrite(p, "clearAll")
  /\ LET w == Head(inflight[p])
         todo == IF w.call = "getEnrollees" THEN enrollees
                 ELSE IF w.call = "getReferrals" THEN ExistingReferrals
                 ELSE IF w.call \in {"deleteEnrollee", "deleteReferral"}
                 THEN w.todo \ {w.doc}
                 ELSE {}
         next == NextCall(w.call, todo)
     IN /\ enrollees' = IF w.call = "deleteEnrollee"
                        THEN enrollees \ {w.doc} ELSE enrollees
        /\ referrals' = IF w.call = "deleteReferral"
                        THEN [referrals EXCEPT ![w.doc] = NoReferral]
                        ELSE referrals
        /\ IF next = "done"
           THEN /\ isSubmitting' = [isSubmitting EXCEPT ![p] =
                                      IF w.live THEN FALSE ELSE @]
                /\ Landed(p)
           ELSE /\ \E doc \in NextDoc(todo) :
                     inflight' = [inflight EXCEPT ![p] =
                       Append(Tail(@), [w EXCEPT !.call = next, !.todo = todo,
                                                 !.doc = doc])]
                /\ UNCHANGED isSubmitting
  /\ UNCHANGED << user, userRole, currentPage, switching, respDialog,
                  responding, cancelingReferralId, saving, profile, clock,
                  idVars, permVars >>

(***************************************************************************)
(* The operator's scripts.  seedData and cleanupData are run from the      *)
(* command line against the store of the application ('demo-app'), while   *)
(* sessions work or not; each awaits its calls one by one, and a rejected  *)
(* call ends it.  The resources collection, the care note and the          *)
(* anonymous sign-in are not part of the model: the calls on them are the  *)
(* awaits they are, and change nothing else.  The seed script of the admin *)
(* SDK writes below 'atlas-demo', which no session of this store reads.    *)
(***************************************************************************)
\* What every step of a script leaves alone: the sessions and their pages.
sessionVars == << user, userRole, currentPage, switching, uiVars, inflight,
                  pureVars, shellVars, lastRejection, pageVars,
                  currentEnrolleeId, enrolleeView, showDeleteDialog, deleting,
                  isUpdating >>

\* The script has come to its end, process.exit: nothing is left running.
ScriptExited ==
  [script EXCEPT !.run = "none", !.call = "none", !.todo = {}, !.doc = 0,
                 !.ids = <<>>, !.rid = 0, !.runs = @ + 1]

\* The referral document seedData adds: a Pending referral of the first
\* sample enrollee, referred by 'demo-user'.
SampleReferral(enrolleeId) ==
  NewReferral([enrolleeId |-> enrolleeId, uid |-> "demo-user",
               notes |-> << "n" >>])

\* seedData is started: it signs in anonymously, as a user of its own, and
\* adds the sample resources.  The id of its referral is the next id of
\* the store.
seedData ==
  /\ script.run = "none"
  /\ script.runs < MaxScriptRuns
  /\ RoomForSample
  /\ NewReferralId \in ReferralIds
  /\ referralSeq' = NewReferralId
  /\ script' = [script EXCEPT !.run = "seedData", !.call = "resources",
                              !.rid = NewReferralId]
  /\ UNCHANGED << sessionVars, profile, enrollees, referrals, clock,
                  enrolleeSeq, userDocs, insight >>

\* The call seedData awaits after the one that has just answered: the
\* addDoc of each sample enrollee, of the care note and the PRAXIS insight
\* of the first of them, of the referral, and the setDoc of the profile.
NextSeedCall(call, ids) ==
  IF call \in {"resources", "addEnrollee"}
  THEN IF Len(ids) < SampleSize THEN "addEnrollee" ELSE "addNote"
  ELSE IF call = "addNote" THEN "addInsight"
  ELSE IF call = "addInsight" THEN "addReferral"
  ELSE IF call = "addReferral" THEN "setProfile"
  ELSE "done"

\* The call seedData awaits is answered.  The insight goes into the care
\* plan of the first enrollee added, whatever has become of that enrollee
\* (the care plan the model holds is the one of enrollee 1); the profile
\* written is the one of the script's own user.
SeedAnswered ==
  /\ script.run = "seedData"
  /\ LET call == script.call
         ids == IF call = "addEnrollee"
                THEN Append(script.ids, NewEnrolleeId) ELSE script.ids
         next == NextSeedCall(call, ids)
     IN /\ enrollees' = IF call = "addEnrollee"
                        THEN enrollees \cup {NewEnrolleeId} ELSE enrollees
        /\ enrolleeSeq' = IF call = "addEnrollee"
                          THEN NewEnrolleeId ELSE enrolleeSeq
        /\ insight' = IF call = "addInsight" /\ ids[1] = 1
                      THEN [status |-> "Pending"] ELSE insight
        /\ referrals' = IF call = "addReferral"
                        THEN [referrals EXCEPT ![script.rid] =
                                SampleReferral(ids[1])]
                        ELSE referrals
        /\ script' =
             IF next = "done"
             THEN [ScriptExited EXCEPT !.profile =
                     MergeSampleProfile(@, { ids[i] : i \in 1..Len(ids) })]
             ELSE [script EXCEPT !.call = next, !.ids = ids]
  /\ UNCHANGED << sessionVars, profile, clock, referralSeq, userDocs >>

\* cleanupData is started: it signs in anonymously and deletes the
\* resources.
cleanupData ==
  /\ script.run = "none"
  /\ script.runs < MaxScriptRuns
  /\ script' = [script EXCEPT !.run = "cleanupData", !.call = "resources"]
  /\ UNCHANGED << sessionVars, profile, enrollees, referrals, clock,
                  enrolleeSeq, referralSeq, userDocs, insight >>

\* The call cleanupData awaits is answered: the loop of clearAllData over
\* the enrollees and the referrals, run by the script.  No profile and no
\* care plan is written.
CleanupAnswered ==
  /\ script.run = "cleanupData"
  /\ LET call == script.call
         todo == IF call = "getEnrollees" THEN enrollees
                 ELSE IF call = "getReferrals" THEN ExistingReferrals
                 ELSE IF call \in {"deleteEnrollee", "deleteReferral"}
                 THEN script.todo \ {script.doc}
                 ELSE {}
         next == NextCall(call, todo)
     IN /\ enrollees' = IF call = "deleteEnrollee"
                        THEN enrollees \ {script.doc} ELSE enrollees
        /\ referrals' = IF call = "deleteReferral"
                        THEN [referrals EXCEPT ![script.doc] = NoReferral]
                        ELSE referrals
        /\ IF next = "done"
           THEN script' = ScriptExited
           ELSE \E doc \in NextDoc(todo) :
                  script' = [script EXCEPT !.call = next, !.todo = todo,
                                           !.doc = doc]
  /\ UNCHANGED << sessionVars, profile, clock, enrolleeSeq, referralSeq,
                  userDocs, insight >>

\* The call a script awaits is rejected: its catch logs the error and the
\* process exits; what it has written or deleted stays so.
ScriptRejected ==
  /\ script.run # "none"
  /\ script' = ScriptExited
  /\ UNCHANGED << sessionVars, profile, enrollees, referrals, clock,
                  enrolleeSeq, referralSeq, userDocs, insight >>

\* The insight entry as the session's care plan listener shows it: the
\* store with the session's own pending status updates applied.
RECURSIVE InsightAfterAll(_, _)
InsightAfterAll(doc, ws) ==
  IF ws = <<>> THEN doc
  ELSE InsightAfterAll(
         IF Head(ws).kind = "insightStatus" /\ doc # NoInsight
         THEN [doc EXCEPT !.status = Head(ws).status] ELSE doc,
         Tail(ws))

LocalInsight(p) == InsightAfterAll(insight, inflight[p])

\* PRAXISInsightEntry.handleStatusUpdate: the Accept and Dismiss buttons
\* are rendered while the entry the session sees is Pending.
handleStatusUpdate(p, newStatus) ==
  /\ CanSubmit(p)
  /\ ShowsEnrollee(p)
  /\ enrolleeView[p].enrollee = 1
  /\ LocalInsight(p) # NoInsight
  /\ LocalInsight(p).status = "Pending"
  /\ ~isUpdating[p]
  /\ isUpdating' = [isUpdating EXCEPT ![p] = TRUE]
  /\ Submit(p, [kind |-> "insightStatus", status |-> newStatus,
                live |-> TRUE, role |-> userRole[p]])
  /\ UNCHANGED << user, userRole, currentPage, switching, uiVars, storeVars,
                  pureVars, shellVars, lastRejection, pageVars, currentEnrolleeId,
                  enrolleeView, showDeleteDialog, deleting, insight >>

\* updateDoc(entryRef, {status: newStatus}): the status field is written.
StatusUpdated(doc, w) == [doc EXCEPT !.status = w.status]

ApplyInsightStatus(p) ==
  /\ HasWrite(p, "insightStatus")
  /\ insight # NoInsight
  /\ insight' = StatusUpdated(insight, Head(inflight[p]))
  /\ isUpdating' = [isUpdating EXCEPT ![p] =
                      IF Head(inflight[p]).live THEN FALSE ELSE @]
  /\ Landed(p)
  /\ UNCHANGED << user, userRole, currentPage, switching, uiVars, storeVars,
                  pureVars, shellVars, lastRejection, pageVars, currentEnrolleeId,
                  enrolleeView, showDeleteDialog, deleting >>

(***************************************************************************)
(* The admin portal.  Its listener is on the users collection, which holds *)
(* the documents users/{uid}; the application itself writes only           *)
(* users/{uid}/profile/main below them, and a collection snapshot does not *)
(* contain a document that has nothing but subcollections.                 *)
(***************************************************************************)
\* The profile of another principal with the session's own pending role
\* changes of it applied.
RECURSIVE RoleChangesAfter(_, _, _)
RoleChangesAfter(u, doc, ws) ==
  IF ws = <<>> THEN doc
  ELSE RoleChangesAfter(
         u,
         IF Head(ws).kind = "roleChange" /\ Head(ws).userId = u /\ doc # NoProfile
         THEN [doc EXCEPT !.role = Head(ws).newRole] ELSE doc,
         Tail(ws))

\* The profile of principal u as getDocs answers it to session p: the
\* store with the session's own pending writes applied.
ProfileFor(p, u) ==
  IF u = p THEN LocalProfile(p)
  ELSE RoleChangesAfter(u, profile[u], inflight[p])

\* setUsers(usersData); setLoading(false)
UsersListed(portal, usersData) ==
  [ portal EXCEPT !.loading = FALSE, !.users = usersData, !.reading = FALSE,
                  !.todo = {}, !.usersData = {} ]

\* AdminPortalPage: the listener of the users collection fires.  Its
\* callback goes through the user documents and awaits the getDocs of the
\* first one's profile; with no user document it lists no users.
AdminUsersSnapshot(p) ==
  /\ user[p]
  /\ currentPage[p] = "admin-portal"
  /\ adminPortal[p].loading
  /\ ~adminPortal[p].reading
  /\ adminPortal' = [adminPortal EXCEPT ![p] =
       IF userDocs = {} THEN UsersListed(@, {})
       ELSE [@ EXCEPT !.reading = TRUE, !.todo = userDocs, !.usersData = {}]]
  /\ UNCHANGED << user, userRole, currentPage, switching, uiVars, storeVars,
                  inflight, pureVars, shellVars, lastRejection, subjectVars,
                  enrolleesState, editingReferral >>

\* The getDocs of a user's profile collection is answered: the callback
\* adds the row of a user that has a profile and comes to the next user
\* document; after the last it lists the rows it has collected.
AdminProfileGetDocs(p) ==
  /\ user[p]
  /\ adminPortal[p].reading
  /\ \E u \in NextDoc(adminPortal[p].todo) :
       LET todo == adminPortal[p].todo \ {u}
           usersData ==
             adminPortal[p].usersData \cup
               IF ProfileFor(p, u) # NoProfile
               THEN { [id |-> u, role |-> ProfileFor(p, u).role] } ELSE {}
       IN adminPortal' = [adminPortal EXCEPT ![p] =
            IF todo = {} THEN UsersListed(@, usersData)
            ELSE [@ EXCEPT !.todo = todo, !.usersData = usersData]]
  /\ UNCHANGED << user, userRole, currentPage, switching, uiVars, storeVars,
                  inflight, pureVars, shellVars, lastRejection, subjectVars,
                  enrolleesState, editingReferral >>

\* The table of users is rendered when the hook grants ADMIN_PORTAL.
ListedUsers(p) ==
  IF /\ currentPage[p] = "admin-portal"
     /\ HasPermission(userRole[p], "ADMIN_PORTAL")
  THEN adminPortal[p].users ELSE {}

\* The Edit button of a row: setEditingUserId(userData.id).
editUser(p, u) ==
  /\ user[p]
  /\ \E row \in ListedUsers(p) : row.id = u
  /\ adminPortal[p].editing # u
  /\ adminPortal' = [adminPortal EXCEPT ![p].editing = u]
  /\ UNCHANGED << user, userRole, currentPage, switching, uiVars, storeVars,
                  inflight, pureVars, shellVars, lastRejection, subjectVars,
                  enrolleesState, editingReferral >>

\* The X button of the row being edited: setEditingUserId(null).
cancelEditUser(p) ==
  /\ user[p]
  /\ \E row \in ListedUsers(p) : row.id = adminPortal[p].editing
  /\ ~saving[p]
  /\ adminPortal' = [adminPortal EXCEPT ![p].editing = Null]
  /\ UNCHANGED << user, userRole, currentPage, switching, uiVars, storeVars,
                  inflight, pureVars, shellVars, lastRejection, subjectVars,
                  enrolleesState, editingReferral >>

\* AdminPortalPage.handleRoleChange, called by the role select of the row
\* being edited when another role than the one shown is chosen:
\* updateDoc(profileRef of that user, {role: newRole}).
handleRoleChange(p, userId, newRole) ==
  /\ CanSubmit(p)
  /\ adminPortal[p].editing = userId
  /\ \E row \in ListedUsers(p) : row.id = userId /\ row.role # newRole
  /\ ~saving[p]
  /\ saving' = [saving EXCEPT ![p] = TRUE]
  /\ Submit(p, [kind |-> "roleChange", userId |-> userId, self |-> userId = p,
                newRole |-> newRole, live |-> TRUE, role |-> userRole[p]])
  /\ UNCHANGED << user, userRole, currentPage, switching, respDialog,
                  responding, cancelingReferralId, isSubmitting, storeVars,
                  permVars >>

\* updateDoc of the role field alone.
RoleChanged(doc, w) == [doc EXCEPT !.role = w.newRole]

\* The role change lands (updateDoc needs the document to exist); the row
\* leaves edit mode.
ApplyRoleChange(p) ==
  /\ HasWrite(p, "roleChange")
  /\ profile[Head(inflight[p]).userId] # NoProfile
  /\ profile' = [profile EXCEPT ![Head(inflight[p]).userId] =
                   RoleChanged(@, Head(inflight[p]))]
  /\ IF Head(inflight[p]).live
     THEN /\ adminPortal' = [adminPortal EXCEPT ![p].editing = Null]
          /\ saving' = [saving EXCEPT ![p] = FALSE]
     ELSE UNCHANGED << adminPortal, saving >>
  /\ Landed(p)
  /\ UNCHANGED << user, userRole, currentPage, switching, respDialog,
                  responding, cancelingReferralId, isSubmitting, enrollees,
                  referrals, clock, idVars, pureVars, shellVars,
                  lastRejection, subjectVars, enrolleesState,
                  editingReferral >>

\* What the call site of a write does with its rejection: the handlers'
\* catch blocks show an alert; LoadDataPage's adds a log line and sets the
\* page's status, which shows nothing once the page has been left; the
\* profile listener of MyEnrolleesPage awaits its setDoc outside any try.
Surfacing(w) ==
  IF w.kind = "lazyCreate" THEN "unhandled"
  ELSE IF w.kind \in {"sampleEnrollees", "sampleProfile", "clearAll"}
  THEN IF w.live THEN "status" ELSE "unseen"
  ELSE "alert"

\* The store rejects the oldest pending write (network or store error):
\* the handler's catch and finally blocks run.
FailWrite(p) ==
  /\ inflight[p] # <<>>
  /\ Landed(p)
  /\ lastRejection' = [lastRejection EXCEPT ![p] = Surfacing(Head(inflight[p]))]
  /\ switching' = [switching EXCEPT ![p] =
                     IF Head(inflight[p]).kind = "roleSwitch" THEN FALSE ELSE @]
  /\ responding' = [responding EXCEPT ![p] =
       IF Head(inflight[p]).kind = "respond" /\ Head(inflight[p]).live
       THEN FALSE ELSE @]
  /\ saving' = [saving EXCEPT ![p] =
       IF /\ Head(inflight[p]).kind \in {"cancel", "editNotes", "roleChange"}
          /\ Head(inflight[p]).live
       THEN FALSE ELSE @]
  /\ isSubmitting' = [isSubmitting EXCEPT ![p] =
       IF /\ Head(inflight[p]).kind \in {"addEnrollee", "assign", "createReferral",
                                        "sampleEnrollees", "sampleProfile",
                                        "clearAll"}
          /\ Head(inflight[p]).live
       THEN FALSE ELSE @]
  /\ deleting' = [deleting EXCEPT ![p] =
       IF Head(inflight[p]).kind = "deleteEnrollee" /\ Head(inflight[p]).live
       THEN FALSE ELSE @]
  /\ isUpdating' = [isUpdating EXCEPT ![p] =
       IF Head(inflight[p]).kind = "insightStatus" /\ Head(inflight[p]).live
       THEN FALSE ELSE @]
  /\ UNCHANGED << user, userRole, currentPage, respDialog,
                  cancelingReferralId, storeVars, pureVars, shellVars,
                  currentEnrolleeId, enrolleeView, showDeleteDialog, insight,
                  pageVars >>

\* updateDoc of a document that does not exist: the store answers
\* not-found, and the handler's catch and finally blocks run.
RejectRoleSwitch(p) ==
  /\ HasWrite(p, "roleSwitch")
  /\ ~CanApply(profile[p], Head(inflight[p]))
  /\ FailWrite(p)

(***************************************************************************)
(* Specifications                                                          *)
(***************************************************************************)
\* The pages a session visits in Spec: all but the sample-data page, whose
\* handlers are in NextProfile.
WorkPages == Pages \ {"load-data"}

\* The steps of one session on the pages of WorkPages, and of the store on
\* the session's behalf.  The store of Spec never holds a PRAXIS insight or
\* a users/{uid} document, so the insight buttons of the profile page and
\* the rows of the admin portal are never rendered there.
Step(p) ==
  \/ PermissionsEffect(p)
  \/ InitialPageEffect(p)
  \/ SignIn(p)
  \/ ProfileSnapshot(p)
  \/ \E page \in WorkPages : Navigate(p, page)
  \/ \E page \in WorkPages : FollowLink(p, page)
  \/ \E r \in RoleChoices : handleRoleSwitch(p, r)
  \/ MyEnrolleesSnapshot(p)
  \/ MyEnrolleesGetDocs(p)
  \/ ResourceCardSnapshot(p)
  \/ ResourceCardGetDocs(p)
  \/ EnrolleeSnapshot(p)
  \/ openDeleteDialog(p)
  \/ closeDeleteDialog(p)
  \/ handleDelete(p)
  \/ handleSubmit(p)
  \/ \E eid \in EnrolleeIds, notes \in NoteInputs :
       handleSubmitReferral(p, eid, notes)
  \/ \E rid \in ReferralIds, a \in {"Accepted", "Rejected"} : handleRespond(p, rid, a)
  \/ \E notes \in NoteInputs : submitResponse(p, notes)
  \/ closeResponseDialog(p)
  \/ \E rid \in ReferralIds : openCancelDialog(p, rid)
  \/ handleCancelReferral(p)
  \/ closeCancelDialog(p)
  \/ \E rid \in ReferralIds : handleEditClick(p, rid)
  \/ \E notes \in NoteInputs : handleSaveEdit(p, notes)
  \/ closeEditDialog(p)
  \/ AdminUsersSnapshot(p)
  \/ ApplyRoleSwitch(p)
  \/ ApplyLazyCreate(p)
  \/ ApplyAddEnrollee(p)
  \/ ApplyAssign(p)
  \/ ApplyDeleteEnrollee(p)
  \/ ApplyCreateReferral(p)
  \/ ApplyRespond(p)
  \/ ApplyCancel(p)
  \/ ApplyEditNotes(p)
  \/ FailWrite(p)

\* One session working through the application against an empty store,
\* where the operator runs no script.  The role change of the admin portal
\* is in NextAdmin, the insight of the care plan in NextSubject, the
\* sample-data page and the seed script in NextProfile.
Next == Step("u1")

Spec == Init /\ [][Next]_vars

\* The referral workflow between two sessions.  The store holds what u1,
\* as Admin, and u2, as Partner, have put there before: their profiles,
\* u1's enrollee, and u1's Pending referrals of that enrollee.
SeededReferral ==
  NewReferral([enrolleeId |-> 1, uid |-> "u1", role |-> "Admin",
               notes |-> <<>>])

InitReferral ==
  /\ user = [p \in Principals |-> FALSE]
  /\ userRole = [p \in Principals |-> NoRole]
  /\ InitUi
  /\ profile = [p \in Principals |->
       IF p = "u1"
       THEN [role |-> "Admin", assignedEnrollees |-> {1}]
       ELSE NewProfile("Partner")]
  /\ enrollees = {1}
  /\ enrolleeSeq = 1
  /\ referralSeq = MaxReferrals
  /\ userDocs = {}
  /\ script = ScriptIdle
  /\ referrals = [rid \in ReferralIds |-> SeededReferral]
  /\ clock = 0
  /\ insight = NoInsight
  /\ permQuery = NoQuery
  /\ permResult = Null
  /\ evalCall = NoCall
  /\ evalResult = NoCall

ReferralPages == {"referrals", "referral-inbox"}

NextReferral ==
  \E p \in Principals :
    \/ PermissionsEffect(p)
    \/ InitialPageEffect(p)
    \/ SignIn(p)
    \/ ProfileSnapshot(p)
    \/ \E page \in ReferralPages : Navigate(p, page)
    \/ \E rid \in ReferralIds, a \in {"Accepted", "Rejected"} : handleRespond(p, rid, a)
    \/ \E notes \in NoteInputs : submitResponse(p, notes)
    \/ closeResponseDialog(p)
    \/ \E rid \in ReferralIds : openCancelDialog(p, rid)
    \/ handleCancelReferral(p)
    \/ closeCancelDialog(p)
    \/ \E rid \in ReferralIds : handleEditClick(p, rid)
    \/ \E notes \in NoteInputs : handleSaveEdit(p, notes)
    \/ closeEditDialog(p)
    \/ \E r \in RoleChoices : p \in RoleSwitchers /\ handleRoleSwitch(p, r)
    \/ ApplyRoleSwitch(p)
    \/ ApplyRespond(p)
    \/ ApplyCancel(p)
    \/ ApplyEditNotes(p)
    \/ FailWrite(p)

SpecReferral == InitReferral /\ [][NextReferral]_vars

\* One session on the sample-data page while the operator runs a script
\* or none.  The store is empty, or holds what u1, as Admin, has put there
\* before: its profile and its enrollee.  The session switches to the role
\* that is offered the page, and holds the role of the sample profile
\* after a load.
ProfileRoleChoices == {"Admin"}

ProfilePages == {"dashboard", "load-data"}

InitProfile ==
  /\ user = [p \in Principals |-> FALSE]
  /\ userRole = [p \in Principals |-> NoRole]
  /\ InitUi
  /\ \E enrolled \in {{}, {1}} :
       /\ profile = [p \in Principals |->
            IF p = "u1" /\ enrolled # {}
            THEN [role |-> "Admin", assignedEnrollees |-> enrolled]
            ELSE NoProfile]
       /\ enrollees = enrolled
       /\ enrolleeSeq = Cardinality(enrolled)
  /\ referralSeq = 0
  /\ userDocs = {}
  /\ script = ScriptIdle
  /\ referrals = [rid \in ReferralIds |-> NoReferral]
  /\ clock = 0
  /\ insight = NoInsight
  /\ permQuery = NoQuery
  /\ permResult = Null
  /\ evalCall = NoCall
  /\ evalResult = NoCall

NextProfile ==
  \/ \E p \in {"u1"} :
       \/ PermissionsEffect(p)
       \/ InitialPageEffect(p)
       \/ SignIn(p)
       \/ ProfileSnapshot(p)
       \/ \E page \in ProfilePages : Navigate(p, page)
       \/ \E r \in ProfileRoleChoices : handleRoleSwitch(p, r)
       \/ loadSampleData(p)
       \/ clearAllData(p)
       \/ ApplyRoleSwitch(p)
       \/ ApplySampleEnrollees(p)
       \/ ApplySampleProfile(p)
       \/ ApplyClearAll(p)
       \/ FailWrite(p)
  \/ seedData
  \/ SeedAnswered
  \/ cleanupData
  \/ CleanupAnswered
  \/ ScriptRejected

SpecProfile == InitProfile /\ [][NextProfile]_vars

\* The permission hook on its own: the profile document a session finds is
\* any document the store can hold, and the hook answers permission checks.
ProfileDocs ==
  {NoProfile} \cup
  [role : RoleLabels \cup {Missing, ""}, assignedEnrollees : {{}}]

InitPerm ==
  /\ user = [p \in Principals |-> FALSE]
  /\ userRole = [p \in Principals |-> NoRole]
  /\ InitUi
  /\ profile \in [Principals -> ProfileDocs]
  /\ enrollees = {}
  /\ enrolleeSeq = 0
  /\ referralSeq = 0
  /\ userDocs = {}
  /\ script = ScriptIdle
  /\ referrals = [rid \in ReferralIds |-> NoReferral]
  /\ clock = 0
  /\ insight = NoInsight
  /\ permQuery = NoQuery
  /\ permResult = Null
  /\ evalCall = NoCall
  /\ evalResult = NoCall

NextPerm ==
  \E p \in Principals :
    \/ PermissionsEffect(p)
    \/ InitialPageEffect(p)
    \/ SignIn(p)
    \/ ProfileSnapshot(p)
    \/ \E a \in ActionNames : CheckPermission(p, a)

SpecPerm == InitPerm /\ [][NextPerm]_vars

\* The application shell from its first render until the role is resolved:
\* the hook's effect, sign-in, the profile snapshot and AppContent's effect,
\* with no navigation by the user.
NextStartup ==
  \E p \in Principals :
    \/ PermissionsEffect(p)
    \/ InitialPageEffect(p)
    \/ SignIn(p)
    \/ ProfileSnapshot(p)

SpecStartup == InitPerm /\ [][NextStartup]_vars

\* Two sessions on the profile page of one enrollee.  The store holds what
\* they have put there before: the profiles of u1, Admin, and u2,
\* Enrollment Manager, both with enrollee 1 assigned, u1's Pending referrals
\* of the enrollee, and a Pending PRAXIS insight in its care plan.
InitSubject ==
  /\ user = [p \in Principals |-> FALSE]
  /\ userRole = [p \in Principals |-> NoRole]
  /\ InitUi
  /\ profile = [p \in Principals |->
       [role |-> IF p = "u1" THEN "Admin" ELSE "Enrollment Manager",
        assignedEnrollees |-> {1}]]
  /\ enrollees = {1}
  /\ enrolleeSeq = 1
  /\ referralSeq = MaxReferrals
  /\ userDocs = {}
  /\ script = ScriptIdle
  /\ referrals = [rid \in ReferralIds |-> SeededReferral]
  /\ clock = 0
  /\ insight = [status |-> "Pending"]
  /\ permQuery = NoQuery
  /\ permResult = Null
  /\ evalCall = NoCall
  /\ evalResult = NoCall

SubjectPages == {"enrollees"}

NextSubject ==
  \/ \E p \in Principals :
       \/ PermissionsEffect(p)
       \/ InitialPageEffect(p)
       \/ SignIn(p)
       \/ ProfileSnapshot(p)
       \/ \E page \in SubjectPages : Navigate(p, page)
       \/ MyEnrolleesSnapshot(p)
       \/ MyEnrolleesGetDocs(p)
       \/ \E page \in SubjectPages \cup {"profile"} : FollowLink(p, page)
       \/ EnrolleeSnapshot(p)
       \/ openDeleteDialog(p)
       \/ closeDeleteDialog(p)
       \/ handleDelete(p)
       \/ \E newStatus \in {"Accepted", "Dismissed"} :
            handleStatusUpdate(p, newStatus)
       \/ ApplyDeleteEnrollee(p)
       \/ ApplyInsightStatus(p)
       \/ FailWrite(p)
  \/ cleanupData
  \/ CleanupAnswered
  \/ ScriptRejected

SpecSubject == InitSubject /\ [][NextSubject]_vars

\* The admin portal between two sessions.  The store holds the profiles of
\* u1, Admin, and u2, Partner, and, put there by the operator of the store,
\* the user documents of both.
InitAdmin ==
  /\ user = [p \in Principals |-> FALSE]
  /\ userRole = [p \in Principals |-> NoRole]
  /\ InitUi
  /\ profile = [p \in Principals |->
       NewProfile(IF p = "u1" THEN "Admin" ELSE "Partner")]
  /\ enrollees = {}
  /\ enrolleeSeq = 0
  /\ referralSeq = 0
  /\ userDocs = Principals
  /\ script = ScriptIdle
  /\ referrals = [rid \in ReferralIds |-> NoReferral]
  /\ clock = 0
  /\ insight = NoInsight
  /\ permQuery = NoQuery
  /\ permResult = Null
  /\ evalCall = NoCall
  /\ evalResult = NoCall

AdminPages == {"admin-portal", "dashboard"}

NextAdmin ==
  \E p \in Principals :
    \/ PermissionsEffect(p)
    \/ InitialPageEffect(p)
    \/ SignIn(p)
    \/ ProfileSnapshot(p)
    \/ \E page \in AdminPages : Navigate(p, page)
    \/ AdminUsersSnapshot(p)
    \/ AdminProfileGetDocs(p)
    \/ \E u \in Principals : editUser(p, u)
    \/ cancelEditUser(p)
    \/ \E u \in Principals, r \in RoleChoices : handleRoleChange(p, u, r)
    \/ ApplyRoleChange(p)
    \/ FailWrite(p)

SpecAdmin == InitAdmin /\ [][NextAdmin]_vars

\* The role switch of the header on its own, in either shell: a session
\* whose profile document is any document the store can hold, or missing,
\* switches roles.
Shells == {"part_002", "part_003"}

InitSwitch ==
  /\ user = [p \in Principals |-> FALSE]
  /\ userRole = [p \in Principals |-> NoRole]
  /\ InitPages
  /\ shell \in {[p \in Principals |-> deployed] : deployed \in Shells}
  /\ profile \in [Principals -> ProfileDocs]
  /\ enrollees = {}
  /\ enrolleeSeq = 0
  /\ referralSeq = 0
  /\ userDocs = {}
  /\ script = ScriptIdle
  /\ referrals = [rid \in ReferralIds |-> NoReferral]
  /\ clock = 0
  /\ insight = NoInsight
  /\ permQuery = NoQuery
  /\ permResult = Null
  /\ evalCall = NoCall
  /\ evalResult = NoCall

NextSwitch ==
  \E p \in {"u1"} :
    \/ PermissionsEffect(p)
    \/ InitialPageEffect(p)
    \/ SignIn(p)
    \/ ProfileSnapshot(p)
    \/ \E r \in ROLES : handleRoleSwitch(p, r)
    \/ ApplyRoleSwitch(p)
    \/ RejectRoleSwitch(p)
    \/ FailWrite(p)

SpecSwitch == InitSwitch /\ [][NextSwitch]_vars

(***************************************************************************)
(* View-model computations.  Documents are objects with optional fields: a *)
(* function from the names of the fields that are present to their values. *)
(***************************************************************************)
appVars == << user, userRole, currentPage, switching, uiVars, storeVars,
              inflight, permQuery, permResult, shellVars, lastRejection,
              subjectVars, pageVars >>

\* The application as Init leaves it, for the specifications that start
\* from a computation's arguments.
InitApp ==
  /\ user = [p \in Principals |-> FALSE]
  /\ userRole = [p \in Principals |-> NoRole]
  /\ InitUi
  /\ profile = [p \in Principals |-> NoProfile]
  /\ enrollees = {}
  /\ enrolleeSeq = 0
  /\ referralSeq = 0
  /\ userDocs = {}
  /\ script = ScriptIdle
  /\ referrals = [rid \in ReferralIds |-> NoReferral]
  /\ clock = 0
  /\ insight = NoInsight
  /\ permQuery = NoQuery
  /\ permResult = Null

\* The computation named fn has its arguments and has not run yet.
Called(fn) == evalCall.fn = fn /\ evalResult = NoCall

\* {}
EmptyObject == [k \in {} |-> 0]

\* obj.k is not undefined
Has(obj, k) == k \in DOMAIN obj

Range(seq) == { seq[i] : i \in 1..Len(seq) }

(***************************************************************************)
(* ResourcesPage: the resources shown for the selected enrollee            *)
(***************************************************************************)
ZCodes == {"Z59.0", "Z59.4"}

CodeLists == UNION { [1..n -> ZCodes] : n \in 0..MaxCodes }

\* selectedEnrollee is null ("All Resources")
NoEnrollee == [selected |-> FALSE]

\* Enrollee documents as far as the filter reads them.
FilterEnrollees ==
  {EmptyObject, [riskProfile |-> EmptyObject]}
    \cup { [riskProfile |-> [zCodes |-> l]] : l \in CodeLists }

EligibilityCriteria ==
  {EmptyObject, [income |-> "Below 200% FPL"]}
    \cup { [zCodes |-> l] : l \in CodeLists }
    \cup { [zCodes |-> l, income |-> "Below 200% FPL"] : l \in CodeLists }

\* Resource documents as far as the filter reads them.
FilterResources ==
  {EmptyObject} \cup { [eligibilityCriteria |-> c] : c \in EligibilityCriteria }

ResourceLists == UNION { [1..n -> FilterResources] : n \in 0..MaxResources }

\* A filter that asks every criteria code of the enrollee.
EligibleEveryCode(selectedEnrollee, resource) ==
  LET criteria == IF Has(resource, "eligibilityCriteria")
                  THEN resource.eligibilityCriteria ELSE EmptyObject
      enrolleeZCodes ==
        IF Has(selectedEnrollee, "riskProfile")
             /\ Has(selectedEnrollee.riskProfile, "zCodes")
        THEN selectedEnrollee.riskProfile.zCodes ELSE <<>>
  IN IF Has(criteria, "zCodes") /\ Len(criteria.zCodes) > 0
     THEN \A i \in 1..Len(criteria.zCodes) :
            Includes(enrolleeZCodes, criteria.zCodes[i])
     ELSE TRUE

\* The callback of resources.filter in ResourcesPage.
Eligible(selectedEnrollee, resource) ==
  LET criteria == IF Has(resource, "eligibilityCriteria")
                  THEN resource.eligibilityCriteria ELSE EmptyObject
      enrolleeZCodes ==
        IF Has(selectedEnrollee, "riskProfile")
             /\ Has(selectedEnrollee.riskProfile, "zCodes")
        THEN selectedEnrollee.riskProfile.zCodes ELSE <<>>
  IN IF Has(criteria, "zCodes") /\ Len(criteria.zCodes) > 0
     THEN \E i \in 1..Len(criteria.zCodes) :
            Includes(enrolleeZCodes, criteria.zCodes[i])
     ELSE TRUE

filteredResources(selectedEnrollee, resources) ==
  IF selectedEnrollee # NoEnrollee
  THEN LET Keep(resource) == Eligible(selectedEnrollee, resource)
       IN SelectSeq(resources, Keep)
  ELSE resources

\* ResourcesPage renders with its selection and the resources it has loaded.
ResourcesPageRender ==
  /\ Called("filteredResources")
  /\ evalResult' = [value |-> filteredResources(evalCall.selectedEnrollee,
                                                evalCall.resources)]
  /\ UNCHANGED << appVars, evalCall >>

InitEligibility ==
  /\ InitApp
  /\ evalCall \in [fn : {"filteredResources"},
                    selectedEnrollee : FilterEnrollees \cup {NoEnrollee},
                    resources : ResourceLists]
  /\ evalResult = NoCall

NextEligibility == ResourcesPageRender

SpecEligibility == InitEligibility /\ [][NextEligibility]_vars

(***************************************************************************)
(* Numbers.  A number is a fraction in lowest terms; the denominator 0     *)
(* stands for the two values a division by zero produces.  The program     *)
(* computes with doubles: a quotient that is no binary fraction is the     *)
(* double next to it, which matters where the quotient lies on a rounding  *)
(* boundary.  Math.round of a quotient meets only boundaries that are      *)
(* binary fractions; Math.round of a percentage and toFixed(1) decide the  *)
(* others by the side of the boundary the double lies on.                  *)
(***************************************************************************)
RECURSIVE GCD(_, _)
GCD(a, b) == IF b = 0 THEN a ELSE GCD(b, a % b)

Abs(n) == IF n < 0 THEN -n ELSE n

\* n / d for d > 0, in lowest terms
Norm(n, d) ==
  LET g == GCD(Abs(n), d) IN [num |-> n \div g, den |-> d \div g]

Num(n) == [num |-> n, den |-> 1]

NaN == [num |-> 0, den |-> 0]

Infinity == [num |-> 1, den |-> 0]

IsFinite(x) == x.den # 0

\* a / b, for a finite and not negative and b an integer that is not negative
Divide(a, b) ==
  IF b = 0 THEN (IF a.num = 0 THEN NaN ELSE Infinity)
  ELSE Norm(a.num, a.den * b)

Times(a, n) == IF IsFinite(a) THEN Norm(a.num * n, a.den) ELSE a

\* a < b; every comparison with NaN is false
Less(a, b) ==
  IF a = NaN \/ b = NaN THEN FALSE
  ELSE IF ~IsFinite(a) THEN FALSE
  ELSE IF ~IsFinite(b) THEN TRUE
  ELSE a.num * b.den < b.num * a.den

\* Math.round: the nearest integer, halves upwards
MathRound(a) ==
  IF IsFinite(a) THEN Num((2 * a.num + a.den) \div (2 * a.den)) ELSE a

(***************************************************************************)
(* Wellness of one enrollee                                                *)
(***************************************************************************)
dimensions ==
  << "physical", "emotional", "social", "intellectual", "occupational",
     "environmental", "financial", "spiritual" >>

Dimensions == Range(dimensions)

ScoreValues == {0, 30, 39, 40, 55, 70, 71, 80}

\* wellnessScores objects: every dimension present carries one score, the
\* physical dimension possibly another; up to MaxMissing dimensions, or all
\* of them, are missing.
WellnessScoreObjects ==
  {EmptyObject} \cup
  { [d \in Dimensions \ missing |-> IF d = "physical" THEN v2 ELSE v] :
      v \in ScoreValues, v2 \in ScoreValues,
      missing \in { m \in SUBSET Dimensions : Cardinality(m) <= MaxMissing } }

\* The ten codes the analytics service knows by name, and their names.
zCodeNames ==
  << "Z59.0", "Z59.1", "Z59.4", "Z59.6", "Z59.8", "Z56.0", "Z56.9", "Z55.9",
     "Z63.4", "Z91.4" >>

zCodeLabels ==
  << "Homelessness", "Inadequate Housing", "Lack of Adequate Food",
     "Low Income", "Housing Instability", "Unemployment",
     "Employment Problems", "Educational Problems", "Family Disruption",
     "History of Trauma" >>

\* Enrollees as far as their wellness is read.
WellnessEnrollees ==
  {EmptyObject, [riskProfile |-> EmptyObject]}
    \cup { [riskProfile |-> [wellnessScores |-> w]] : w \in WellnessScoreObjects }

\* Enrollees as the prediction reads them: scores, codes and tier, each
\* present or not.
PredictionEnrollees ==
  {EmptyObject} \cup
  { [riskProfile |->
       (IF t = 0 THEN EmptyObject ELSE [tier |-> t])
         @@ (IF n < 0 THEN EmptyObject ELSE [zCodes |-> SubSeq(zCodeNames, 1, n)])
         @@ (IF w = EmptyObject THEN EmptyObject ELSE [wellnessScores |-> w])] :
      t \in 0..3, n \in -1..MaxCodeCount, w \in WellnessScoreObjects }

RECURSIVE SumOver(_, _)
\* values.reduce((sum, score) => sum + score, 0)
SumOver(f, keys) ==
  IF keys = {} THEN 0
  ELSE LET k == CHOOSE x \in keys : TRUE IN f[k] + SumOver(f, keys \ {k})

HasScores(enrollee) ==
  Has(enrollee, "riskProfile") /\ Has(enrollee.riskProfile, "wellnessScores")

\* calculateWellnessScore of the application shell: scores.dim || 0 for the
\* eight dimensions, summed, divided by eight, rounded.
calculateWellnessScore(enrollee) ==
  IF ~HasScores(enrollee) THEN Num(0)
  ELSE LET scores == enrollee.riskProfile.wellnessScores
       IN MathRound(Divide(Num(SumOver(scores, DOMAIN scores \cap Dimensions)),
                           Len(dimensions)))

\* calculateEnrolleeWellness of the analytics service: the scores that are
\* numbers, summed and divided by their count.
calculateEnrolleeWellness(enrollee) ==
  IF ~HasScores(enrollee) THEN Num(0)
  ELSE LET scores == enrollee.riskProfile.wellnessScores
           values == DOMAIN scores \cap Dimensions
       IN IF Cardinality(values) > 0
          THEN Divide(Num(SumOver(scores, values)), Cardinality(values))
          ELSE Num(0)

\* A recommendation that takes four codes for tier 3.
predictRecommendedTierFourCodes(wellness, zCodeCount, currentTier) ==
  IF Less(Num(70), wellness) /\ zCodeCount <= 2 THEN 1
  ELSE IF Less(wellness, Num(40)) \/ zCodeCount >= 4 THEN 3
  ELSE 2

predictRecommendedTier(wellness, zCodeCount, currentTier) ==
  IF Less(Num(70), wellness) /\ zCodeCount <= 2 THEN 1
  ELSE IF Less(wellness, Num(40)) \/ zCodeCount >= 5 THEN 3
  ELSE 2

predictRiskTrend(enrollee) ==
  LET wellness == calculateEnrolleeWellness(enrollee)
      zCodeCount ==
        IF Has(enrollee, "riskProfile") /\ Has(enrollee.riskProfile, "zCodes")
        THEN Len(enrollee.riskProfile.zCodes) ELSE 0
      currentTier ==
        IF Has(enrollee, "riskProfile") /\ Has(enrollee.riskProfile, "tier")
        THEN enrollee.riskProfile.tier ELSE 2
      branch ==
        IF Less(Num(70), wellness) /\ zCodeCount <= 2
        THEN [prediction |-> "improving", confidence |-> Norm(75, 100)]
        ELSE IF Less(wellness, Num(40)) /\ zCodeCount >= 4
        THEN [prediction |-> "declining", confidence |-> Norm(7, 10)]
        ELSE [prediction |-> "stable", confidence |-> Norm(6, 10)]
  IN [ prediction |-> branch.prediction,
       confidence |-> MathRound(Times(branch.confidence, 100)),
       recommendedTier |-> predictRecommendedTier(wellness, zCodeCount, currentTier),
       wellness |-> wellness,
       zCodeCount |-> zCodeCount ]

(***************************************************************************)
(* Analytics over lists of enrollees and referrals                         *)
(***************************************************************************)
\* a - b for finite a and b
Minus(a, b) == Norm(a.num * b.den - b.num * a.den, a.den * b.den)

\* Math.abs
MathAbs(a) == [num |-> Abs(a.num), den |-> a.den]

\* a <= b
LessEq(a, b) ==
  IF a = NaN \/ b = NaN THEN FALSE ELSE a = b \/ Less(a, b)

RECURSIVE FloorLog2(_, _)
\* The exponent e of a positive n / d: 2^e <= n / d < 2^(e + 1)
FloorLog2(n, d) ==
  IF n >= 2 * d THEN FloorLog2(n, 2 * d) + 1
  ELSE IF n < d THEN FloorLog2(2 * n, d) - 1
  ELSE 0

\* 2^s modulo 20, for s >= 2
Pow2Mod20(s) ==
  CASE (s - 2) % 4 = 0 -> 4
    [] (s - 2) % 4 = 1 -> 8
    [] (s - 2) % 4 = 2 -> 16
    [] (s - 2) % 4 = 3 -> 12

\* The double of k / 20, k odd and no multiple of 5, lies above k / 20:
\* its 53-bit significand is k * 2^s / 20 rounded to the nearest integer,
\* where s scales the quotient into [2^52, 2^53).
DoubleLiesAbove(k) ==
  (k * Pow2Mod20(52 - FloorLog2(k, 20))) % 20 > 10

\* Number.prototype.toFixed(1) of a number that is not negative: the
\* multiple of one tenth nearest to the double, the larger of two equally
\* near.  The result is a text; it is kept as the number the text denotes.
ToFixed1(a) ==
  IF ~IsFinite(a) THEN a
  ELSE IF (20 * a.num) % a.den = 0 /\ ((20 * a.num) \div a.den) % 2 = 1
  THEN LET k == (20 * a.num) \div a.den
       IN IF k % 5 = 0 \/ DoubleLiesAbove(k)
          THEN Norm((k + 1) \div 2, 10)
          ELSE Norm((k - 1) \div 2, 10)
  ELSE Norm((20 * a.num + a.den) \div (2 * a.den), 10)

RECURSIVE Pow2Mod(_, _)
\* 2^s modulo c
Pow2Mod(s, c) == IF s = 0 THEN 1 % c ELSE (2 * Pow2Mod(s - 1, c)) % c

\* Math.round((a / b) * 100) for counts 0 <= a <= b: the quotient and the
\* product are doubles.  The percentage lies on a rounding boundary k + 1/2
\* only when a / b is n / (8 c) in lowest terms, c being 1, 5 or 25.  The
\* double of the quotient has the significand n * 2^s / c rounded to the
\* nearest integer, s scaling it into [2^52, 2^53).  Where that drops the
\* remainder r, the product with 100 lies 25 r / (c * 2^(s + 1)) below the
\* boundary, and it rounds to the double below the boundary if this is more
\* than half the distance 2^(e - 52) of the doubles there; Math.round then
\* gives k.  Every other product is the boundary or lies above it.
RoundPercent(a, b) ==
  IF b = 0 THEN NaN
  ELSE LET n == Norm(a, b).num
           d == Norm(a, b).den
           c == d \div 8
           exponent == FloorLog2(n, c)
           e == FloorLog2(25 * n, 2 * c)
           r == (n * Pow2Mod(52 - exponent, c)) % c
       IN IF /\ n > 0
             /\ (200 * n) % d = 0
             /\ ((200 * n) \div d) % 2 = 1
             /\ 2 * r < c
             /\ 25 * r > c * 2^(e - exponent)
          THEN Num(((200 * n) \div d - 1) \div 2)
          ELSE MathRound(Norm(100 * a, b))

\* One character of a text.
Char(text, i) == SubSeq(text, i, i)

Digits == << "0", "1", "2", "3", "4", "5", "6", "7", "8", "9" >>

DigitValue(c) == (CHOOSE i \in 1..Len(Digits) : Digits[i] = c) - 1

\* a < b for two numbers written in digits without leading zeros
IndexLess(a, b) ==
  \/ Len(a) < Len(b)
  \/ /\ Len(a) = Len(b)
     /\ \E i \in 1..Len(a) :
          /\ \A j \in 1..(i - 1) : Char(a, j) = Char(b, j)
          /\ DigitValue(Char(a, i)) < DigitValue(Char(b, i))

\* The property key is an integer index: the canonical text of an integer
\* from 0 to 2^32 - 2.  An object lists such keys first, in ascending order.
IsArrayIndex(key) ==
  /\ Len(key) > 0
  /\ \A i \in 1..Len(key) : \E d \in 1..Len(Digits) : Digits[d] = Char(key, i)
  /\ Len(key) = 1 \/ Char(key, 1) # "0"
  /\ Len(key) <= 10
  /\ ~IndexLess("4294967294", key)

RECURSIVE Distinct(_)
\* The keys in the order of their first assignment.
Distinct(keys) ==
  IF keys = <<>> THEN <<>>
  ELSE LET rest == Distinct(SubSeq(keys, 1, Len(keys) - 1))
       IN IF \E i \in 1..Len(rest) : rest[i] = keys[Len(keys)]
          THEN rest ELSE Append(rest, keys[Len(keys)])

RECURSIVE Ascending(_)
\* Integer keys in ascending order.
Ascending(keys) ==
  IF keys = <<>> THEN <<>>
  ELSE LET rest == Ascending(SubSeq(keys, 1, Len(keys) - 1))
           key == keys[Len(keys)]
           before == Cardinality({ i \in 1..Len(rest) : IndexLess(rest[i], key) })
       IN SubSeq(rest, 1, before) \o << key >>
            \o SubSeq(rest, before + 1, Len(rest))

\* The exception raised by a read of a property of null.
TypeError == [thrown |-> "TypeError"]

\* null, as an entry of a list
null == [isNull |-> TRUE]

\* A value that is not an array, where the code expects one: an object
\* that has no map method.
NotAnArray == << [notAnArray |-> TRUE] >>

\* A promise that holds nothing yet, and a body read that was rejected.
Nothing == [nothing |-> TRUE]

BodyRejected == [thrown |-> "bodyRejected"]

\* The callback of a filter, map or forEach over the list reads a property
\* of an entry that is null.
AnyNull(list) == \E i \in 1..Len(list) : list[i] = null

\* What obj[key] finds in an object literal that does not define the key:
\* the member of Object.prototype of that name.
Inherited(key) == [inherited |-> key]

\* The text of the inherited member of that name followed by n times "1".
InheritedAndOnes(key, n) == [inherited |-> key, ones |-> n]

\* typeof count === 'number'
IsNumber(count) == Has(count, "num")

\* Object.entries(counts) of the object counts[key] = (counts[key] || 0) + 1
\* was run on for every key of the list in turn: integer keys in ascending
\* order, then the other keys in the order of their first assignment.  For
\* a key Object.prototype has, counts[key] finds the inherited member: the
\* sum is a text, the member's followed by "1", and every further one
\* appends "1".  The assignment to '__proto__' of a text defines nothing.
CountEntries(keys) ==
  LET IsOther(key) == ~IsArrayIndex(key) /\ key # "__proto__"
      own == Ascending(SelectSeq(Distinct(keys), IsArrayIndex))
               \o SelectSeq(Distinct(keys), IsOther)
      Occurs(key) == Cardinality({ j \in 1..Len(keys) : keys[j] = key })
  IN [ i \in 1..Len(own) |->
         [ key |-> own[i],
           count |-> IF own[i] \in ObjectPrototypeKeys
                     THEN InheritedAndOnes(own[i], Occurs(own[i]))
                     ELSE Num(Occurs(own[i])) ] ]

RECURSIVE ByCountDescending(_)
\* entries.sort((a, b) => b[1] - a[1]) of counts that are numbers: the sort
\* is stable.
ByCountDescending(entries) ==
  IF entries = <<>> THEN <<>>
  ELSE LET rest == ByCountDescending(SubSeq(entries, 1, Len(entries) - 1))
           entry == entries[Len(entries)]
           before == Cardinality({ i \in 1..Len(rest) :
                                     rest[i].count.num >= entry.count.num })
       IN SubSeq(rest, 1, before) \o << entry >>
            \o SubSeq(rest, before + 1, Len(rest))

\* What entries.sort((a, b) => b[1] - a[1]) can leave.  The difference with
\* a count that is a text is NaN, which the sort takes for 0; the entry is
\* then equal to entries that differ from each other, the comparison is no
\* consistent one, and the order of the result is the engine's choice.
SortOutcomes(entries) ==
  IF Len(entries) <= 1 \/ \A i \in 1..Len(entries) : IsNumber(entries[i].count)
  THEN { ByCountDescending(entries) }
  ELSE { [ i \in 1..Len(entries) |-> entries[order[i]] ] :
           order \in Permutations(1..Len(entries)) }

\* Object.entries(counts).sort(...).slice(0, 5)
TopFive(keys) ==
  { SubSeq(sorted, 1, IF Len(sorted) < 5 THEN Len(sorted) ELSE 5) :
      sorted \in SortOutcomes(CountEntries(keys)) }

\* code.startsWith(prefix)
StartsWith(code, prefix) ==
  Len(code) >= Len(prefix) /\ SubSeq(code, 1, Len(prefix)) = prefix

\* list.filter(test).length
CountOf(list, Test(_)) == Cardinality({ i \in 1..Len(list) : Test(list[i]) })

\* list.reduce((sum, x) => sum + Value(x), 0)
SumOf(list, Value(_)) ==
  LET sum[i \in 0..Len(list)] ==
        IF i = 0 THEN 0 ELSE sum[i - 1] + Value(list[i])
  IN sum[Len(list)]

\* A test that also takes every higher tier.
HasTierOrAbove(e, tier) ==
  Has(e, "riskProfile") /\ Has(e.riskProfile, "tier") /\ e.riskProfile.tier >= tier

HasTier(e, tier) ==
  Has(e, "riskProfile") /\ Has(e.riskProfile, "tier") /\ e.riskProfile.tier = tier

\* enrollee.riskProfile?.zCodes || []
ZCodesOf(e) ==
  IF Has(e, "riskProfile") /\ Has(e.riskProfile, "zCodes")
  THEN e.riskProfile.zCodes ELSE <<>>

\* enrollee.careTeam || []
CareTeamOf(e) == IF Has(e, "careTeam") THEN e.careTeam ELSE <<>>

\* the scores of an enrollee that are numbers
NumberScores(e) ==
  IF HasScores(e) THEN DOMAIN e.riskProfile.wellnessScores \cap Dimensions ELSE {}

calculateAverageWellness(enrolleeList) ==
  IF Len(enrolleeList) = 0 THEN Num(0)
  ELSE IF AnyNull(enrolleeList) THEN TypeError
  ELSE LET Total(e) == IF HasScores(e)
                       THEN SumOver(e.riskProfile.wellnessScores, NumberScores(e))
                       ELSE 0
           Scores(e) == Cardinality(NumberScores(e))
           totalScore == SumOf(enrolleeList, Total)
           scoreCount == SumOf(enrolleeList, Scores)
       IN IF scoreCount > 0
          THEN MathRound(Divide(Num(totalScore), scoreCount))
          ELSE Num(0)

calculateWellnessDimensions(enrolleeList) ==
  IF AnyNull(enrolleeList) THEN TypeError
  ELSE [ dim \in Dimensions |->
           LET HasDim(e) == dim \in NumberScores(e)
               Score(e) == IF HasDim(e) THEN e.riskProfile.wellnessScores[dim] ELSE 0
               scores == SelectSeq(enrolleeList, HasDim)
           IN IF Len(scores) > 0
              THEN Divide(Num(SumOf(scores, Score)), Len(scores))
              ELSE Num(0) ]

calculateRiskDistribution(enrolleeList) ==
  LET total == Len(enrolleeList)
      Tier1(e) == HasTier(e, 1)
      Tier2(e) == HasTier(e, 2)
      Tier3(e) == HasTier(e, 3)
      tier1 == CountOf(enrolleeList, Tier1)
      tier2 == CountOf(enrolleeList, Tier2)
      tier3 == CountOf(enrolleeList, Tier3)
  IN IF total = 0
     THEN [ tier1 |-> Num(0), tier2 |-> Num(0), tier3 |-> Num(0),
            tier1Percent |-> Num(0), tier2Percent |-> Num(0),
            tier3Percent |-> Num(0) ]
     ELSE IF AnyNull(enrolleeList) THEN TypeError
     ELSE [ tier1 |-> Num(tier1), tier2 |-> Num(tier2), tier3 |-> Num(tier3),
            tier1Percent |-> RoundPercent(tier1, total),
            tier2Percent |-> RoundPercent(tier2, total),
            tier3Percent |-> RoundPercent(tier3, total) ]

\* zCodeNames[code] || code: the name table is an object literal
getZCodeName(code) ==
  IF \E i \in 1..Len(zCodeNames) : zCodeNames[i] = code
  THEN zCodeLabels[CHOOSE i \in 1..Len(zCodeNames) : zCodeNames[i] = code]
  ELSE IF code \in ObjectPrototypeKeys THEN Inherited(code)
  ELSE code

\* The values the analysis can return.
analyzeZCodes(enrolleeList) ==
  LET WithCodes(e) == Len(ZCodesOf(e)) > 0
      Codes(e) == Len(ZCodesOf(e))
      totalZCodes == SumOf(enrolleeList, Codes)
      counted[i \in 0..Len(enrolleeList)] ==
        IF i = 0 THEN <<>> ELSE counted[i - 1] \o ZCodesOf(enrolleeList[i])
  IN IF AnyNull(enrolleeList) THEN { TypeError }
     ELSE { [ totalZCodes |-> Num(totalZCodes),
              enrolleesWithZCodes |-> Num(CountOf(enrolleeList, WithCodes)),
              avgZCodesPerEnrollee |->
                IF Len(enrolleeList) > 0
                THEN ToFixed1(Divide(Num(totalZCodes), Len(enrolleeList)))
                ELSE Num(0),
              topZCodes |->
                [ i \in 1..Len(top) |->
                    [ code |-> top[i].key, count |-> top[i].count,
                      name |-> getZCodeName(top[i].key) ] ] ] :
            top \in TopFive(counted[Len(enrolleeList)]) }

\* member.role || 'Unknown'
MemberRole(member) ==
  IF Has(member, "role") /\ member.role # "" THEN member.role ELSE "Unknown"

analyzeCareTeams(enrolleeList) ==
  LET WithTeam(e) == Len(CareTeamOf(e)) > 0
      Members(e) == Len(CareTeamOf(e))
      totalTeamMembers == SumOf(enrolleeList, Members)
      roles[i \in 0..Len(enrolleeList)] ==
        IF i = 0 THEN <<>>
        ELSE roles[i - 1] \o
               [ j \in 1..Len(CareTeamOf(enrolleeList[i])) |->
                   MemberRole(CareTeamOf(enrolleeList[i])[j]) ]
      entries == CountEntries(roles[Len(enrolleeList)])
  IN IF \/ AnyNull(enrolleeList)
        \/ \E i \in 1..Len(enrolleeList) : AnyNull(CareTeamOf(enrolleeList[i]))
     THEN TypeError
     ELSE [ totalTeamMembers |-> Num(totalTeamMembers),
            enrolleesWithTeams |-> Num(CountOf(enrolleeList, WithTeam)),
            avgTeamSize |->
              IF Len(enrolleeList) > 0
              THEN ToFixed1(Divide(Num(totalTeamMembers), Len(enrolleeList)))
              ELSE Num(0),
            roleCounts |->
              [ role \in { entries[i].key : i \in 1..Len(entries) } |->
                  entries[CHOOSE i \in 1..Len(entries) :
                            entries[i].key = role].count ] ]

HasStatus(r, status) == Has(r, "status") /\ r.status = status

\* referral.resourceName || 'Unknown'
ResourceName(r) ==
  IF Has(r, "resourceName") /\ r.resourceName # "" THEN r.resourceName
  ELSE "Unknown"

\* The values the analysis can return.
analyzeReferrals(referralList) ==
  LET Pending(r) == HasStatus(r, "Pending")
      Accepted(r) == HasStatus(r, "Accepted")
      Rejected(r) == HasStatus(r, "Rejected")
      statusCounts == [ Pending |-> Num(CountOf(referralList, Pending)),
                        Accepted |-> Num(CountOf(referralList, Accepted)),
                        Rejected |-> Num(CountOf(referralList, Rejected)) ]
  IN IF AnyNull(referralList) THEN { TypeError }
     ELSE { [ statusCounts |-> statusCounts,
              acceptanceRate |->
                IF Len(referralList) > 0
                THEN RoundPercent(statusCounts.Accepted.num, Len(referralList))
                ELSE Num(0),
              topResources |->
                [ i \in 1..Len(top) |->
                    [ name |-> top[i].key, count |-> top[i].count ] ] ] :
            top \in TopFive([ i \in 1..Len(referralList) |->
                                ResourceName(referralList[i]) ]) }

calculateTrends(enrolleeList) ==
  LET avgWellness == calculateAverageWellness(enrolleeList)
      Improving(e) ==
        Less(Num(avgWellness.num + 10), calculateEnrolleeWellness(e))
      Stable(e) ==
        LessEq(MathAbs(Minus(calculateEnrolleeWellness(e), avgWellness)), Num(10))
      Declining(e) ==
        Less(calculateEnrolleeWellness(e), Num(avgWellness.num - 10))
      improving == CountOf(enrolleeList, Improving)
      stable == CountOf(enrolleeList, Stable)
      declining == CountOf(enrolleeList, Declining)
      Percent(n) ==
        IF Len(enrolleeList) > 0
        THEN RoundPercent(n, Len(enrolleeList))
        ELSE Num(0)
  IN IF AnyNull(enrolleeList) THEN TypeError
     ELSE [ improving |-> Num(improving), stable |-> Num(stable),
            declining |-> Num(declining),
            improvingPercent |-> Percent(improving),
            stablePercent |-> Percent(stable),
            decliningPercent |-> Percent(declining) ]

\* The values the analysis can return.
analyzeGeography(enrolleeList) ==
  LET Address(e) ==
        IF Has(e, "demographics") /\ Has(e.demographics, "address")
        THEN e.demographics.address ELSE EmptyObject
      \* the values of the field that are not empty, enrollee by enrollee
      Counted(field) ==
        LET counted[i \in 0..Len(enrolleeList)] ==
              IF i = 0 THEN <<>>
              ELSE IF /\ Has(Address(enrolleeList[i]), field)
                      /\ Address(enrolleeList[i])[field] # ""
              THEN Append(counted[i - 1], Address(enrolleeList[i])[field])
              ELSE counted[i - 1]
        IN counted[Len(enrolleeList)]
  IN IF AnyNull(enrolleeList) THEN { TypeError }
     ELSE { [ topZipCodes |->
                [ i \in 1..Len(topZips) |->
                    [ zip |-> topZips[i].key, count |-> topZips[i].count ] ],
              topCities |->
                [ i \in 1..Len(topCities) |->
                    [ city |-> topCities[i].key, count |-> topCities[i].count ] ] ] :
            topZips \in TopFive(Counted("zipCode")),
            topCities \in TopFive(Counted("city")) }

\* The values the analytics can return.
calculateDashboardAnalytics(enrolleeList, referralList) ==
  LET Pending(r) == HasStatus(r, "Pending")
      Tier1(e) == HasTier(e, 1)
      Tier2(e) == HasTier(e, 2)
      Tier3(e) == HasTier(e, 3)
  IN IF \/ AnyNull(referralList)
        \/ AnyNull(enrolleeList)
        \/ analyzeCareTeams(enrolleeList) = TypeError
     THEN { TypeError }
     ELSE { [ totalEnrollees |-> Num(Len(enrolleeList)),
              totalReferrals |-> Num(Len(referralList)),
              activeReferrals |-> Num(CountOf(referralList, Pending)),
              tier1Count |-> Num(CountOf(enrolleeList, Tier1)),
              tier2Count |-> Num(CountOf(enrolleeList, Tier2)),
              tier3Count |-> Num(CountOf(enrolleeList, Tier3)),
              avgWellnessScore |-> calculateAverageWellness(enrolleeList),
              wellnessDimensions |-> calculateWellnessDimensions(enrolleeList),
              riskDistribution |-> calculateRiskDistribution(enrolleeList),
              zCodeAnalysis |-> zCodeAnalysis,
              careTeamMetrics |-> analyzeCareTeams(enrolleeList),
              referralMetrics |-> referralMetrics,
              trends |-> calculateTrends(enrolleeList),
              geographicAnalysis |-> geographicAnalysis ] :
            zCodeAnalysis \in analyzeZCodes(enrolleeList),
            referralMetrics \in analyzeReferrals(referralList),
            geographicAnalysis \in analyzeGeography(enrolleeList) }

\* calculateAge(dob): 0 without a date of birth, else the years between the
\* date and today; a dob document field holds those years (NaN for a text
\* that is no date).
calculateAge(e) ==
  IF Has(e, "demographics") /\ Has(e.demographics, "dob")
  THEN e.demographics.dob ELSE Num(0)

\* e.riskProfile?.tier || 0
TierOrZero(e) ==
  IF Has(e, "riskProfile") /\ Has(e.riskProfile, "tier")
  THEN e.riskProfile.tier ELSE 0

\* the average of a cohort's tiers, or of its code counts
CohortAverage(group, Value(_)) ==
  IF Len(group) > 0 THEN Divide(Num(SumOf(group, Value)), Len(group)) ELSE Num(0)

ageGroups == << "18-24", "25-34", "35-44", "45-54", "55-64", "65+" >>

AgeGroup(e) ==
  LET age == calculateAge(e)
  IN IF Less(age, Num(25)) THEN "18-24"
     ELSE IF Less(age, Num(35)) THEN "25-34"
     ELSE IF Less(age, Num(45)) THEN "35-44"
     ELSE IF Less(age, Num(55)) THEN "45-54"
     ELSE IF Less(age, Num(65)) THEN "55-64"
     ELSE "65+"

analyzeByAge(enrolleeList) ==
  IF AnyNull(enrolleeList) THEN TypeError
  ELSE
  [ g \in 1..Len(ageGroups) |->
      LET InGroup(e) == AgeGroup(e) = ageGroups[g]
          group == SelectSeq(enrolleeList, InGroup)
      IN [ group |-> ageGroups[g],
           count |-> Num(Len(group)),
           avgWellness |-> calculateAverageWellness(group),
           avgRiskTier |-> CohortAverage(group, TierOrZero) ] ]

analyzeByRiskTier(enrolleeList) ==
  IF AnyNull(enrolleeList) THEN TypeError
  ELSE
  [ t \in 1..3 |->
      LET InTier(e) == HasTier(e, t)
          Codes(e) == Len(ZCodesOf(e))
          group == SelectSeq(enrolleeList, InTier)
      IN [ tier |-> t,
           count |-> Num(Len(group)),
           avgWellness |-> calculateAverageWellness(group),
           avgZCodes |-> CohortAverage(group, Codes) ] ]

zCodeCategories ==
  << [category |-> "Housing Insecurity", prefix |-> "Z59"],
     [category |-> "Employment Issues", prefix |-> "Z56"],
     [category |-> "Educational Problems", prefix |-> "Z55"],
     [category |-> "No Z-Codes", prefix |-> ""] >>

analyzeByZCode(enrolleeList) ==
  IF AnyNull(enrolleeList) THEN TypeError
  ELSE
  [ c \in 1..Len(zCodeCategories) |->
      LET InCategory(e) ==
            IF zCodeCategories[c].prefix = ""
            THEN Len(ZCodesOf(e)) = 0
            ELSE \E i \in 1..Len(ZCodesOf(e)) :
                   StartsWith(ZCodesOf(e)[i], zCodeCategories[c].prefix)
          group == SelectSeq(enrolleeList, InCategory)
      IN [ category |-> zCodeCategories[c].category,
           count |-> Num(Len(group)),
           avgWellness |-> calculateAverageWellness(group),
           avgRiskTier |-> CohortAverage(group, TierOrZero) ] ]

analyzeByCohort(enrolleeList, cohortType) ==
  IF cohortType = "age" THEN analyzeByAge(enrolleeList)
  ELSE IF cohortType = "tier" THEN analyzeByRiskTier(enrolleeList)
  ELSE IF cohortType = "zcode" THEN analyzeByZCode(enrolleeList)
  ELSE <<>>

\* What a call leaves: the value returned, or the exception thrown.
Returned(value) == IF value = TypeError THEN TypeError ELSE [value |-> value]

\* An enrollee card or list row shows the enrollee's wellness score.
WellnessScoreRender ==
  /\ Called("calculateWellnessScore")
  /\ evalResult' = [value |-> calculateWellnessScore(evalCall.enrollee)]
  /\ UNCHANGED << appVars, evalCall >>

EnrolleeWellnessCall ==
  /\ Called("calculateEnrolleeWellness")
  /\ evalResult' = [value |-> calculateEnrolleeWellness(evalCall.enrollee)]
  /\ UNCHANGED << appVars, evalCall >>

RiskTrendCall ==
  /\ Called("predictRiskTrend")
  \* enrollee: the argument after the call; the function assigns to none
  \* of its fields
  /\ evalResult' = [value |-> predictRiskTrend(evalCall.enrollee),
                    enrollee |-> evalCall.enrollee]
  /\ UNCHANGED << appVars, evalCall >>

RiskDistributionCall ==
  /\ Called("calculateRiskDistribution")
  /\ evalResult' = Returned(calculateRiskDistribution(evalCall.enrollees))
  /\ UNCHANGED << appVars, evalCall >>

AverageWellnessCall ==
  /\ Called("calculateAverageWellness")
  /\ evalResult' = Returned(calculateAverageWellness(evalCall.enrollees))
  /\ UNCHANGED << appVars, evalCall >>

TrendsCall ==
  /\ Called("calculateTrends")
  /\ evalResult' = Returned(calculateTrends(evalCall.enrollees))
  /\ UNCHANGED << appVars, evalCall >>

ReferralsCall ==
  /\ Called("analyzeReferrals")
  /\ \E value \in analyzeReferrals(evalCall.referrals) :
       evalResult' = Returned(value)
  /\ UNCHANGED << appVars, evalCall >>

\* DashboardPage.handleExportDashboard computes the analytics it exports,
\* of the enrollees it fetched and the user's pending referrals.
DashboardAnalyticsCall ==
  /\ Called("calculateDashboardAnalytics")
  /\ \E value \in calculateDashboardAnalytics(evalCall.enrollees,
                                              evalCall.referrals) :
       evalResult' = Returned(value)
  /\ UNCHANGED << appVars, evalCall >>

CohortCall ==
  /\ Called("analyzeByCohort")
  /\ evalResult' = Returned(analyzeByCohort(evalCall.enrollees,
                                            evalCall.cohortType))
  /\ UNCHANGED << appVars, evalCall >>

ListsOf(S, n) == UNION { [1..k -> S] : k \in 0..n }

\* n times the same entry
Copies(entry, n) == [ i \in 1..n |-> entry ]

\* The sizes of the longer lists: a share of a list is a percentage on a
\* rounding boundary only when the size of the list is a multiple of eight.
CohortSizes == { n \in 1..MaxCohort : n % 8 = 0 }

\* Lists of i entries of one kind, j of a second and the rest of a third.
Cohorts(first, second, third) ==
  UNION { UNION { { Copies(first, i) \o Copies(second, both - i)
                      \o Copies(third, n - both) : i \in 0..both } :
                  both \in 0..n } :
          n \in CohortSizes }

\* Enrollees as the risk distribution reads them.
TierEnrollees ==
  {EmptyObject, [riskProfile |-> EmptyObject]}
    \cup { [riskProfile |-> [tier |-> t]] : t \in 1..3 }

TrendScores == {30, 35, 50, 55, 65, 80}

\* An enrollee with the same score in every dimension.
ScoredEnrollee(score) ==
  [riskProfile |-> [wellnessScores |-> [d \in Dimensions |-> score]]]

\* Enrollees with one score in every dimension but, possibly, the last.
TrendEnrollees ==
  {EmptyObject} \cup
  { [riskProfile |-> [wellnessScores |-> [d \in Dimensions \ missing |-> v]]] :
      v \in TrendScores, missing \in {{}, {"spiritual"}} }

ReferralStatuses == {"Pending", "Accepted", "Rejected", "Cancelled"}

\* Referrals as the analysis reads them.
ReferralDocs ==
  {EmptyObject}
    \cup { [status |-> st] : st \in ReferralStatuses }
    \cup { [status |-> st, resourceName |-> name] :
             st \in ReferralStatuses,
             name \in {"Community Food Bank", "211"} }
    \cup { [status |-> "Accepted", resourceName |-> "constructor"], null }

\* Enrollee documents whose care team holds null, or whose codes, roles,
\* ZIP codes or cities are names Object.prototype has, and one that has
\* none of these.
OddEnrollees ==
  { [riskProfile |-> [tier |-> 3, zCodes |-> SubSeq(zCodeNames, 1, 2)]],
    [careTeam |-> << null >>],
    [careTeam |-> << [userId |-> "u1", role |-> "constructor"] >>],
    [riskProfile |-> [zCodes |-> << "constructor" >>]],
    [riskProfile |-> [zCodes |-> << "toString", "Z59.0", "toString" >>]],
    [demographics |-> [address |-> [zipCode |-> "__proto__",
                                    city |-> "valueOf"]]] }

\* Whole enrollee documents: assessed with a care team and an address, or
\* lacking any of these.
DashboardEnrollees ==
  {EmptyObject} \cup
  { [riskProfile |-> rp] @@ team @@ demographics :
      rp \in { [tier |-> 1, zCodes |-> <<>>,
                wellnessScores |-> [d \in Dimensions |-> 70]],
               [tier |-> 3, zCodes |-> SubSeq(zCodeNames, 1, 2),
                wellnessScores |-> [d \in Dimensions |-> 20]],
               [tier |-> 2,
                zCodes |-> << "Z56.9", "Z59.9", "Z60.2", "Z59.0", "Z63.4",
                              "Z91.4" >>,
                wellnessScores |-> [d \in Dimensions |-> 50]] },
      team \in { EmptyObject,
                 [careTeam |-> << [userId |-> "u1", role |-> "CPC"] >>],
                 [careTeam |-> << [userId |-> "u2"] >>] },
      demographics \in
        { EmptyObject,
          [demographics |-> [dob |-> Num(40)]],
          [demographics |-> [dob |-> NaN,
                             address |-> [zipCode |-> "98101"]]],
          [demographics |-> [address |-> [zipCode |-> "10001",
                                          city |-> "Seattle"]]] } }

\* The referrals the dashboard's query for the user's pending referrals
\* delivers.
DashboardReferrals ==
  { [status |-> "Pending"] }
    \cup { [status |-> "Pending", resourceName |-> name] :
             name \in {"Community Food Bank", "hasOwnProperty"} }

AnalyticsCalls ==
  [fn : {"calculateWellnessScore", "calculateEnrolleeWellness"},
   enrollee : WellnessEnrollees]
    \cup [fn : {"predictRiskTrend"}, enrollee : PredictionEnrollees]
    \cup [fn : {"calculateRiskDistribution"},
          enrollees : ListsOf(TierEnrollees, MaxSubjects)
                        \cup Cohorts([riskProfile |-> [tier |-> 1]],
                                     [riskProfile |-> [tier |-> 2]],
                                     [riskProfile |-> EmptyObject])]
    \cup [fn : {"calculateAverageWellness", "calculateTrends"},
          enrollees : ListsOf(TrendEnrollees, MaxSubjects)
                        \cup Cohorts(ScoredEnrollee(80), ScoredEnrollee(30),
                                     ScoredEnrollee(55))]
    \cup [fn : {"analyzeReferrals"},
          referrals : ListsOf(ReferralDocs, MaxSubjects)
                        \cup Cohorts([status |-> "Accepted"],
                                     [status |-> "Rejected"],
                                     [status |-> "Pending"])]
    \cup [fn : {"calculateDashboardAnalytics"},
          enrollees : ListsOf(DashboardEnrollees, MaxDashboard)
                        \cup ListsOf(OddEnrollees, MaxDashboard),
          referrals : ListsOf(DashboardReferrals, MaxDashboard)]
    \cup [fn : {"analyzeByCohort"},
          enrollees : ListsOf(DashboardEnrollees, MaxDashboard)
                        \cup ListsOf(OddEnrollees \cup {null}, MaxDashboard),
          cohortType : {"age", "tier", "zcode", "region"}]

InitAnalytics ==
  /\ InitApp
  /\ evalCall \in AnalyticsCalls
  /\ evalResult = NoCall

NextAnalytics ==
  \/ WellnessScoreRender
  \/ EnrolleeWellnessCall
  \/ RiskTrendCall
  \/ RiskDistributionCall
  \/ AverageWellnessCall
  \/ TrendsCall
  \/ ReferralsCall
  \/ DashboardAnalyticsCall
  \/ CohortCall

SpecAnalytics == InitAnalytics /\ [][NextAnalytics]_vars

(***************************************************************************)
(* Risk assessment timeline: the mapper's tier of a total score, and the   *)
(* entries the RiskAssessmentTimeline component shows                      *)
(***************************************************************************)
calculateRiskTier(lscmiTotalScore) ==
  IF lscmiTotalScore <= 11 THEN 1
  ELSE IF lscmiTotalScore <= 20 THEN 2
  ELSE IF lscmiTotalScore <= 31 THEN 2
  ELSE 3

\* assessment.field || 0
FieldOrZero(assessment, field) ==
  IF Has(assessment, field) THEN assessment[field] ELSE 0

extractLSCMIScores(assessment) ==
  [ criminal |-> FieldOrZero(assessment, "criminal_history_score"),
    education |-> FieldOrZero(assessment, "education_employment_score"),
    financial |-> FieldOrZero(assessment, "financial_score"),
    family |-> FieldOrZero(assessment, "family_marital_score"),
    accommodation |-> FieldOrZero(assessment, "accommodation_score"),
    leisure |-> FieldOrZero(assessment, "leisure_recreation_score"),
    companions |-> FieldOrZero(assessment, "companions_score"),
    alcohol |-> FieldOrZero(assessment, "alcohol_drug_score"),
    attitudes |-> FieldOrZero(assessment, "procriminal_attitude_score"),
    antisocial |-> FieldOrZero(assessment, "antisocial_pattern_score") ]

\* The entry of one assessment: its date, its domain scores, their total and
\* the tier of the total.  The entry's id, assessor, form name, wellness
\* scores and codes are left out: nothing reads them for the tier.
formatAssessmentForTimeline(assessment) ==
  LET lscmiScores == extractLSCMIScores(assessment)
      totalScore == SumOver(lscmiScores, DOMAIN lscmiScores)
  IN [ date |-> assessment.submittedAt,
       tier |-> calculateRiskTier(totalScore),
       totalScore |-> totalScore,
       scores |-> lscmiScores ]

\* list.sort((a, b) => new Date(a.date) - new Date(b.date)): ascending by
\* date, entries of one date in their order in the list
SortByDate(list) ==
  LET sorted[n \in 0..Len(list)] ==
        IF n = 0 THEN <<>>
        ELSE LET before == sorted[n - 1]
                 k == Cardinality({ i \in 1..Len(before) :
                                      before[i].date <= list[n].date })
             IN SubSeq(before, 1, k) \o << list[n] >>
                  \o SubSeq(before, k + 1, Len(before))
  IN sorted[Len(list)]

\* assessments.map(formatAssessmentForTimeline).sort(...), as the value
\* the call returns or the error it throws: a value that is not an array
\* has no map, and an entry that is null has no fields.
createAssessmentTimeline(assessmentList) ==
  IF assessmentList = NotAnArray THEN TypeError
  ELSE IF AnyNull(assessmentList) THEN TypeError
  ELSE [ value |->
           SortByDate([ i \in 1..Len(assessmentList) |->
                          formatAssessmentForTimeline(assessmentList[i]) ]) ]

\* The four entries shown when the component uses local data; dates count
\* from the oldest.
demoAssessments ==
  << [ date |-> 1, tier |-> 3, totalScore |-> 35,
       scores |-> [ criminal |-> 5, education |-> 4, financial |-> 5,
                    family |-> 4, accommodation |-> 4, leisure |-> 3,
                    companions |-> 4, alcohol |-> 3, attitudes |-> 2,
                    antisocial |-> 1 ] ],
     [ date |-> 2, tier |-> 3, totalScore |-> 32,
       scores |-> [ criminal |-> 5, education |-> 3, financial |-> 4,
                    family |-> 4, accommodation |-> 4, leisure |-> 3,
                    companions |-> 3, alcohol |-> 3, attitudes |-> 2,
                    antisocial |-> 1 ] ],
     [ date |-> 3, tier |-> 2, totalScore |-> 24,
       scores |-> [ criminal |-> 4, education |-> 2, financial |-> 3,
                    family |-> 3, accommodation |-> 3, leisure |-> 2,
                    companions |-> 3, alcohol |-> 2, attitudes |-> 1,
                    antisocial |-> 1 ] ],
     [ date |-> 4, tier |-> 1, totalScore |-> 18,
       scores |-> [ criminal |-> 3, education |-> 1, financial |-> 2,
                    family |-> 2, accommodation |-> 2, leisure |-> 2,
                    companions |-> 2, alcohol |-> 2, attitudes |-> 1,
                    antisocial |-> 1 ] ] >>

RiskTierCall ==
  /\ Called("calculateRiskTier")
  /\ evalResult' = [value |-> calculateRiskTier(evalCall.lscmiTotalScore)]
  /\ UNCHANGED << appVars, evalCall >>

AssessmentTimelineCall ==
  /\ Called("createAssessmentTimeline")
  /\ evalResult' = createAssessmentTimeline(evalCall.assessments)
  /\ UNCHANGED << appVars, evalCall >>

\* Assessments as the provider returns them: some of the domain scores,
\* submitted on one of two days.
RawAssessments ==
  { [submittedAt |-> day] @@ criminal @@ education @@ alcohol @@ others :
      day \in 1..2,
      criminal \in { EmptyObject } \cup
                   { [criminal_history_score |-> v] : v \in {2, 3, 8} },
      education \in { EmptyObject, [education_employment_score |-> 9] },
      alcohol \in { EmptyObject, [alcohol_drug_score |-> 8] },
      others \in { EmptyObject,
                   [ family_marital_score |-> 4, companions_score |-> 4,
                     procriminal_attitude_score |-> 4 ] } }

TimelineCalls ==
  [fn : {"calculateRiskTier"}, lscmiTotalScore : 0..MaxTotalScore]
    \cup [fn : {"createAssessmentTimeline"},
          assessments : ListsOf(RawAssessments, MaxAssessments)
                          \cup {<< null >>, NotAnArray}]

(***************************************************************************)
(* The RiskAssessmentTimeline component step by step.  evalCall holds the  *)
(* build's configuration; evalResult holds the component's state (loading, *)
(* assessments, syncStatus), the enrollee it was last rendered with, the   *)
(* provider client's token, what console.warn logged, and the runs of      *)
(* loadAssessments that are suspended at an await.  The effect has no      *)
(* cleanup: a run started for an earlier render goes on beside the later   *)
(* ones.  No call has a timeout: a run whose request is never answered     *)
(* stays where it is.                                                      *)
(***************************************************************************)
NoError == "none"

\* The answers of a fetch: a response that is ok, a response that is not,
\* or a rejected promise.
FetchOutcomes == {"ok", "notOk", "rejected"}

\* What the provider holds for the client: assessments of two days, with
\* totals of 3, 17 and 33.
ProviderAssessments ==
  { [submittedAt |-> 2, criminal_history_score |-> 3],
    [submittedAt |-> 1, criminal_history_score |-> 8,
     education_employment_score |-> 9],
    [submittedAt |-> 2, criminal_history_score |-> 8,
     education_employment_score |-> 9, alcohol_drug_score |-> 8,
     financial_score |-> 8] }

\* What response.json() of the token request resolves with.
TokenBodies ==
  { [access_token |-> "token", expires_in |-> 3600],
    [access_token |-> "token"],
    [expires_in |-> 3600],
    null }

\* What response.json() of the assessments request resolves with.
AssessmentBodies ==
  { [assessments |-> list] : list \in ListsOf(ProviderAssessments, MaxSynced) }
    \cup { [assessments |-> << null >>], [assessments |-> NotAnArray],
           [total |-> 0], null }

\* A body read (response.text(), response.json()) resolves or rejects.
BodyReads(bodies) == { [value |-> body] : body \in bodies } \cup { BodyRejected }

TimelineConfigs ==
  [ fn : {"RiskAssessmentTimeline"},
    alayacareEnabled : BOOLEAN,
    credentials : BOOLEAN ]

\* useState([]), useState(true), useState(null); the effect of the first
\* commit has not run; the client's accessToken and tokenExpiry are null.
TimelineMounted(alayacareClientId) ==
  [ effect |-> TRUE, alayacareClientId |-> alayacareClientId, runs |-> 0,
    loading |-> TRUE, assessments |-> <<>>, syncStatus |-> "null",
    warned |-> NoError, warnings |-> 0,
    accessToken |-> "null", tokenExpiry |-> "null", loads |-> <<>> ]

\* A run of loadAssessments suspended at an await, and what the await
\* holds for it.
Suspended(pc, held) == [pc |-> pc, held |-> held]

Thrown(error) == [thrown |-> error]

\* The run continues past its await, or ends.
Resume(state, i, load) == [state EXCEPT !.loads[i] = load]

EndLoad(state, i) ==
  [state EXCEPT !.loads = SubSeq(@, 1, i - 1) \o SubSeq(@, i + 1, Len(@))]

\* loadLocalAssessments()
loadLocalAssessments(state) ==
  [state EXCEPT !.assessments = demoAssessments]

\* The inner catch without its call of loadLocalAssessments.
SyncFailedWithoutLocalData(state, error) ==
  [ state EXCEPT !.warned = error,
                 !.warnings = @ + 1,
                 !.syncStatus = "Using local data (AlayaCare unavailable)",
                 !.loading = FALSE ]

\* The inner catch of loadAssessments followed by its finally: the error is
\* logged, the status set, the local entries loaded and loading ended.
SyncFailed(state, error) ==
  [ loadLocalAssessments(state) EXCEPT
      !.warned = error,
      !.warnings = @ + 1,
      !.syncStatus = "Using local data (AlayaCare unavailable)",
      !.loading = FALSE ]

\* client.isEnabled()
isEnabled(config) == config.alayacareEnabled /\ config.credentials

\* The effect runs loadAssessments up to its first await: with the
\* integration disabled or no client id on the enrollee the local entries
\* are loaded and loading ends at once; otherwise the status says the sync
\* has begun and the run awaits the import of the client module.
StartLoad ==
  /\ evalCall.fn = "RiskAssessmentTimeline"
  /\ evalResult.effect
  /\ LET run == [evalResult EXCEPT !.effect = FALSE, !.runs = @ + 1,
                                   !.loading = TRUE]
     IN evalResult' =
          IF evalCall.alayacareEnabled /\ evalResult.alayacareClientId
          THEN [ run EXCEPT
                   !.syncStatus = "Syncing with AlayaCare...",
                   !.loads = Append(@, Suspended("importClient", Nothing)) ]
          ELSE [ loadLocalAssessments(run) EXCEPT
                   !.syncStatus = "Using local data",
                   !.loading = FALSE ]
  /\ UNCHANGED << appVars, evalCall >>

\* await import('./services/alayacare-client.js') settles.
ImportClient ==
  /\ evalCall.fn = "RiskAssessmentTimeline"
  /\ \E i \in 1..Len(evalResult.loads), resolved \in BOOLEAN :
       /\ evalResult.loads[i].pc = "importClient"
       /\ evalResult' =
            IF resolved
            THEN Resume(evalResult, i, Suspended("importMapper", Nothing))
            ELSE EndLoad(SyncFailed(evalResult, "importRejected"), i)
  /\ UNCHANGED << appVars, evalCall >>

\* await import('./services/alayacare-mapper.js') settles; the run calls
\* getClientAssessments, which calls request, which awaits authenticate():
\* it throws when the client is not configured, returns the token the
\* client holds while that has not expired, and posts for a token
\* otherwise.
ImportMapper ==
  /\ evalCall.fn = "RiskAssessmentTimeline"
  /\ \E i \in 1..Len(evalResult.loads), resolved, expired \in BOOLEAN :
       /\ evalResult.loads[i].pc = "importMapper"
       /\ evalResult' =
            IF ~resolved
            THEN EndLoad(SyncFailed(evalResult, "importRejected"), i)
            ELSE IF ~isEnabled(evalCall)
            THEN Resume(evalResult, i,
                        Suspended("settled", Thrown("notConfigured")))
            ELSE IF /\ evalResult.accessToken = "token"
                    /\ evalResult.tokenExpiry = "number"
                    /\ ~expired
            THEN Resume(evalResult, i, Suspended("authenticated", Nothing))
            ELSE Resume(evalResult, i, Suspended("tokenFetch", Nothing))
  /\ UNCHANGED << appVars, evalCall >>

\* this.accessToken = data.access_token;
\* this.tokenExpiry = Date.now() + (data.expires_in - 300) * 1000
TokenOf(state, data) ==
  [ state EXCEPT
      !.accessToken = IF Has(data, "access_token") THEN "token"
                      ELSE "undefined",
      !.tokenExpiry = IF Has(data, "expires_in") THEN "number" ELSE "NaN" ]

\* An await of authenticate() settles: the token request is answered, the
\* text of a response that is not ok is read, or the body of one that is.
authenticate ==
  /\ evalCall.fn = "RiskAssessmentTimeline"
  /\ \E i \in 1..Len(evalResult.loads) :
       LET pc == evalResult.loads[i].pc
       IN /\ pc \in {"tokenFetch", "tokenText", "tokenJson"}
          /\ IF pc = "tokenFetch"
             THEN \E response \in FetchOutcomes :
                    evalResult' =
                      Resume(evalResult, i,
                             IF response = "ok"
                             THEN Suspended("tokenJson", Nothing)
                             ELSE IF response = "notOk"
                             THEN Suspended("tokenText", Nothing)
                             ELSE Suspended("settled",
                                            Thrown("authenticationRejected")))
             ELSE IF pc = "tokenText"
             THEN \E read \in BodyReads({"text"}) :
                    evalResult' =
                      Resume(evalResult, i,
                             Suspended("settled",
                                       IF read = BodyRejected
                                       THEN Thrown("bodyRejected")
                                       ELSE Thrown("authenticationFailed")))
             ELSE \E read \in BodyReads(TokenBodies) :
                    evalResult' =
                      IF read = BodyRejected
                      THEN Resume(evalResult, i,
                                  Suspended("settled", Thrown("bodyRejected")))
                      ELSE IF read.value = null
                      THEN Resume(evalResult, i,
                                  Suspended("settled", Thrown("TypeError")))
                      ELSE Resume(TokenOf(evalResult, read.value), i,
                                  Suspended("authenticated", Nothing))
  /\ UNCHANGED << appVars, evalCall >>

\* data.assessments || []
getClientAssessments(data) ==
  IF data = null THEN TypeError
  ELSE IF Has(data, "assessments") THEN [value |-> data.assessments]
  ELSE [value |-> <<>>]

\* An await of request() settles: authenticate() has returned and the
\* assessments are asked for, the assessments request is answered, the text
\* of a response that is not ok is read, or the body of one that is, of
\* which getClientAssessments returns the assessments.
request ==
  /\ evalCall.fn = "RiskAssessmentTimeline"
  /\ \E i \in 1..Len(evalResult.loads) :
       LET pc == evalResult.loads[i].pc
       IN /\ pc \in {"authenticated", "dataFetch", "dataText", "dataJson"}
          /\ IF pc = "authenticated"
             THEN evalResult' =
                    Resume(evalResult, i, Suspended("dataFetch", Nothing))
             ELSE IF pc = "dataFetch"
             THEN \E response \in FetchOutcomes :
                    evalResult' =
                      Resume(evalResult, i,
                             IF response = "ok"
                             THEN Suspended("dataJson", Nothing)
                             ELSE IF response = "notOk"
                             THEN Suspended("dataText", Nothing)
                             ELSE Suspended("settled",
                                            Thrown("requestRejected")))
             ELSE IF pc = "dataText"
             THEN \E read \in BodyReads({"text"}) :
                    evalResult' =
                      Resume(evalResult, i,
                             Suspended("settled",
                                       IF read = BodyRejected
                                       THEN Thrown("bodyRejected")
                                       ELSE Thrown("requestFailed")))
             ELSE \E read \in BodyReads(AssessmentBodies) :
                    evalResult' =
                      Resume(evalResult, i,
                             Suspended("settled",
                                       IF read = BodyRejected
                                       THEN Thrown("bodyRejected")
                                       ELSE getClientAssessments(read.value)))
  /\ UNCHANGED << appVars, evalCall >>

\* await client.getClientAssessments(...) settles and loadAssessments goes
\* on: the timeline of the assessments is shown, or what was thrown is
\* caught; then loading ends.
ClientAnswered ==
  /\ evalCall.fn = "RiskAssessmentTimeline"
  /\ \E i \in 1..Len(evalResult.loads) :
       LET held == evalResult.loads[i].held
           timeline == createAssessmentTimeline(held.value)
       IN /\ evalResult.loads[i].pc = "settled"
          /\ evalResult' =
               IF Has(held, "thrown")
               THEN EndLoad(SyncFailed(evalResult, held.thrown), i)
               ELSE IF timeline = TypeError
               THEN EndLoad(SyncFailed(evalResult, "TypeError"), i)
               ELSE EndLoad([ evalResult EXCEPT
                                !.assessments = timeline.value,
                                !.syncStatus =
                                  "Synced " \o ToString(Len(timeline.value))
                                    \o " assessments from AlayaCare",
                                !.loading = FALSE ], i)
  /\ UNCHANGED << appVars, evalCall >>

\* The listener of the profile page delivers a snapshot of the enrollee's
\* document: the component renders with the new object and its effect is
\* due again, whatever the earlier runs are doing.
EnrolleeChanged ==
  /\ evalCall.fn = "RiskAssessmentTimeline"
  /\ ~evalResult.effect
  /\ evalResult.runs < MaxLoads
  /\ \E alayacareClientId \in BOOLEAN :
       evalResult' = [evalResult EXCEPT
                        !.effect = TRUE,
                        !.alayacareClientId = alayacareClientId]
  /\ UNCHANGED << appVars, evalCall >>

InitSync ==
  /\ InitApp
  /\ evalCall \in TimelineConfigs
  /\ evalResult \in { TimelineMounted(alayacareClientId) :
                        alayacareClientId \in BOOLEAN }

NextSync ==
  \/ StartLoad
  \/ ImportClient
  \/ ImportMapper
  \/ authenticate
  \/ request
  \/ ClientAnswered
  \/ EnrolleeChanged

SpecSync == InitSync /\ [][NextSync]_vars

\* The mapper's functions on their arguments, and the component.
InitTimeline ==
  /\ InitApp
  /\ \/ evalCall \in TimelineCalls /\ evalResult = NoCall
     \/ /\ evalCall \in TimelineConfigs
        /\ evalResult \in { TimelineMounted(alayacareClientId) :
                              alayacareClientId \in BOOLEAN }

NextTimeline ==
  \/ RiskTierCall
  \/ AssessmentTimelineCall
  \/ NextSync

SpecTimeline == InitTimeline /\ [][NextTimeline]_vars

(***************************************************************************)
(* Properties                                                              *)
(***************************************************************************)
Responses == {"Accepted", "Rejected"}

\* C1: a referral whose status is Accepted or Rejected never becomes
\* Cancelled: a cancellation that lands on a referral that is no longer
\* Pending leaves its status as it is.
C1_NoCancelAfterResponse ==
  [][ \A rid \in ReferralIds :
        (referrals[rid] # NoReferral /\ referrals[rid].status \in Responses)
          => referrals'[rid].status # "Cancelled" ]_vars

\* C2: an accept/reject response changes status and response fields only of
\* a Pending referral: on a referral already Accepted, Rejected or Cancelled
\* a landing response changes neither the status nor the response fields.
C2_ResponseOnlyWhenPending ==
  [][ \A rid \in ReferralIds :
        ( /\ referrals[rid] # NoReferral
          /\ referrals[rid].status \in Responses \cup {"Cancelled"}
          /\ referrals'[rid].status \in Responses )
          => /\ referrals'[rid].status = referrals[rid].status
             /\ referrals'[rid].responseNotes = referrals[rid].responseNotes
             /\ referrals'[rid].respondedBy = referrals[rid].respondedBy
             /\ referrals'[rid].respondedTimestamp = referrals[rid].respondedTimestamp ]_vars

\* C3: the status of a referral was set by a session whose role, when it
\* submitted the change, held RESPOND_REFERRAL (for Accepted and Rejected)
\* or CANCEL_REFERRAL (for Cancelled).
C3_StatusChangedWithPermission ==
  \A rid \in ReferralIds :
    referrals[rid] # NoReferral =>
      /\ referrals[rid].status \in Responses
           => HasPermission(referrals[rid].statusRole, "RESPOND_REFERRAL")
      /\ referrals[rid].status = "Cancelled"
           => HasPermission(referrals[rid].statusRole, "CANCEL_REFERRAL")

\* C4: no response is turned away because another one landed first (a
\* pending response can land whatever the referral's status is), and after
\* a response has landed the referral carries the status, notes, responder
\* and timestamp of that one response, never a mixture of two.
C4_LastResponseWins ==
  /\ \A p \in Principals :
       (HasWrite(p, "respond") /\ clock < MaxClock) => ENABLED ApplyRespond(p)
  /\ \A rid \in ReferralIds :
       (referrals[rid] # NoReferral /\ referrals[rid].lastResponse # NoWrite) =>
         /\ referrals[rid].status = referrals[rid].lastResponse.status
         /\ referrals[rid].responseNotes = referrals[rid].lastResponse.notes
         /\ referrals[rid].respondedBy = referrals[rid].lastResponse.by
         /\ referrals[rid].respondedTimestamp = referrals[rid].lastResponse.at

\* Two responses have landed on one referral, the second from u2, and the
\* referral shows the second one.
C4_Witness ==
  \E rid \in ReferralIds :
    /\ referrals[rid] # NoReferral
    /\ referrals[rid].landed = 2
    /\ referrals[rid].lastResponse # NoWrite
    /\ referrals[rid].lastResponse.uid = "u2"
    /\ referrals[rid].respondedBy = "Resource Provider"
    /\ referrals[rid].respondedTimestamp = 2

AllowedRoles(a) == { PERMISSIONS[a][i] : i \in 1..Len(PERMISSIONS[a]) }

\* C5: for every role and every action of the permission table the check
\* returns true exactly when the role is in the action's allowed-role set,
\* and Admin is allowed every action of the table.
C5_PermissionTable ==
  (permQuery # NoQuery /\ permQuery.action \in DOMAIN PERMISSIONS
     /\ permQuery.role \in RoleLabels) =>
    /\ (permResult = "true") <=> (permQuery.role \in AllowedRoles(permQuery.action))
    /\ permResult \in {"true", "false"}
    /\ permQuery.role = "Admin" => permResult = "true"

\* The check granted Enrollment Manager an action whose allowed roles are
\* Admin and Enrollment Manager.
C5_Witness ==
  /\ permQuery # NoQuery
  /\ permQuery.action = "CANCEL_REFERRAL"
  /\ permQuery.role = "Enrollment Manager"
  /\ permResult = "true"

\* C6: the permission check is fail-closed: it returns false for every
\* action name that is not in the permission table, and for every action
\* while the hook has no role.
C6_FailClosed ==
  (permQuery # NoQuery /\ (permQuery.action \notin DOMAIN PERMISSIONS
                            \/ permQuery.role = NoRole))
    => permResult = "false"

WritesOf(p) == { inflight[p][i] : i \in 1..Len(inflight[p]) }

\* C7: a session whose role is Partner submits no create, edit, cancel or
\* delete: the only referral write it submits is a response.
C7_PartnerViewAndRespondOnly ==
  \A p \in Principals : \A w \in WritesOf(p) :
    w.kind \in {"addEnrollee", "assign", "createReferral", "cancel"}
      => w.role # "Partner"

\* C8: role resolution returns the profile's role when the profile exists
\* and the role is non-empty, and the default role label in every other
\* case (no profile, role missing, role empty).
C8_RoleResolution ==
  \A p \in Principals :
    userRole[p] # NoRole =>
      IF profile[p] # NoProfile /\ profile[p].role \notin {Missing, ""}
      THEN userRole[p] = profile[p].role
      ELSE userRole[p] = "CPC"

\* One session resolved a profile whose role is empty, another a profile
\* whose role field is missing, both to the default role.
C8_Witness ==
  /\ profile["u1"] # NoProfile /\ profile["u1"].role = ""
  /\ userRole["u1"] = "CPC"
  /\ profile["u2"] # NoProfile /\ profile["u2"].role = Missing
  /\ userRole["u2"] = "CPC"

\* C9: every role label a profile holds and every role label role
\* resolution returns is one of Admin, Enrollment Manager, Partner.
C9_RolesInEnumeration ==
  \A p \in Principals :
    /\ userRole[p] # NoRole => userRole[p] \in ROLES
    /\ profile[p] # NoProfile => profile[p].role \in ROLES

\* C10: the access that resolves the role of a signed-in principal without
\* a profile creates the default profile: once the role is resolved the
\* profile exists or its creation is on its way, and it carries the default
\* role.
C10_ProfileCreatedOnResolve ==
  \A p \in Principals :
    userRole[p] # NoRole =>
      /\ LocalProfile(p) # NoProfile
      /\ LocalProfile(p).role \in ROLES \cup {DefaultRole}

\* C11: the role stored in an existing profile is changed only by a
\* role-switch write: when a step changes the role of a profile that
\* existed before the step, the step is the landing of a role switch.
C11_RoleChangedOnlyBySwitch ==
  [][ \A p \in Principals :
        ( /\ profile[p] # NoProfile
          /\ profile'[p] # NoProfile
          /\ profile'[p].role # profile[p].role )
          => HasWrite(p, "roleSwitch") ]_vars

\* The classification codes a resource asks for, and those a subject has.
ResourceCodes(resource) ==
  IF Has(resource, "eligibilityCriteria")
       /\ Has(resource.eligibilityCriteria, "zCodes")
  THEN Range(resource.eligibilityCriteria.zCodes) ELSE {}

SubjectCodes(subject) ==
  IF Has(subject, "riskProfile") /\ Has(subject.riskProfile, "zCodes")
  THEN Range(subject.riskProfile.zCodes) ELSE {}

PassesFilter(subject, resource) ==
  \/ ResourceCodes(resource) = {}
  \/ ResourceCodes(resource) \cap SubjectCodes(subject) # {}

\* C12: for every subject and resource, the resource passes the eligibility
\* filter exactly when its classification-code list is empty or absent, or
\* shares at least one code with the subject's codes.
C12_EligibilityFilter ==
  (evalCall.fn = "filteredResources" /\ evalResult # NoCall
     /\ evalCall.selectedEnrollee # NoEnrollee) =>
    /\ \A i \in 1..Len(evalCall.resources) :
         Includes(evalResult.value, evalCall.resources[i])
           <=> PassesFilter(evalCall.selectedEnrollee, evalCall.resources[i])
    /\ Len(evalResult.value) =
         Cardinality({ i \in 1..Len(evalCall.resources) :
                         PassesFilter(evalCall.selectedEnrollee,
                                      evalCall.resources[i]) })

\* A subject with one code was shown a resource without a code list and
\* not a resource that asks for another code.
C12_Witness ==
  /\ evalCall.fn = "filteredResources"
  /\ evalResult # NoCall
  /\ evalCall.selectedEnrollee = [riskProfile |-> [zCodes |-> <<"Z59.0">>]]
  /\ evalCall.resources =
       << [eligibilityCriteria |-> [zCodes |-> <<"Z59.4">>]],
          [eligibilityCriteria |-> [income |-> "Below 200% FPL"]] >>
  /\ evalResult.value = << [eligibilityCriteria |-> [income |-> "Below 200% FPL"]] >>

\* score of dimension d, 0 when the subject has none
ScoreOrZero(subject, d) ==
  IF HasScores(subject) /\ Has(subject.riskProfile.wellnessScores, d)
  THEN subject.riskProfile.wellnessScores[d] ELSE 0

\* The mean over the eight dimensions with 0 for a missing one, rounded.
PerSubjectWellness(subject) ==
  LET total == ScoreOrZero(subject, "physical") + ScoreOrZero(subject, "emotional")
               + ScoreOrZero(subject, "social") + ScoreOrZero(subject, "intellectual")
               + ScoreOrZero(subject, "occupational")
               + ScoreOrZero(subject, "environmental")
               + ScoreOrZero(subject, "financial") + ScoreOrZero(subject, "spiritual")
  IN Num((2 * total + 8) \div 16)

\* C15: per-subject wellness is the mean over the 8 named dimensions with 0
\* substituted for every missing dimension, rounded to the nearest integer,
\* in every place a single subject's wellness is computed: the score the
\* shell shows, the analytics service's own value, and the value the
\* risk-tier recommendation uses.
C15_PerSubjectWellness ==
  evalResult # NoCall =>
    /\ evalCall.fn \in {"calculateWellnessScore", "calculateEnrolleeWellness"}
         => evalResult.value = PerSubjectWellness(evalCall.enrollee)
    /\ evalCall.fn = "predictRiskTrend"
         => evalResult.value.wellness = PerSubjectWellness(evalCall.enrollee)

\* C17: the recommended tier is 1 when wellness > 70 and code-count <= 2,
\* 3 when wellness < 40 or code-count >= 5, and 2 in every other case, for
\* the wellness and the code count the recommendation is made from; the
\* subject's stored tier is what it was before the recommendation.
C17_RecommendedTier ==
  (evalCall.fn = "predictRiskTrend" /\ evalResult # NoCall) =>
    LET w == evalResult.value.wellness
        c == evalResult.value.zCodeCount
        tier == evalResult.value.recommendedTier
    IN /\ (Less(Num(70), w) /\ c <= 2) => tier = 1
       /\ (Less(w, Num(40)) \/ c >= 5) => tier = 3
       /\ (~(Less(Num(70), w) /\ c <= 2) /\ ~(Less(w, Num(40)) \/ c >= 5))
            => tier = 2
       /\ evalResult.enrollee = evalCall.enrollee

\* A subject with wellness 30, six codes and stored tier 1 was recommended
\* tier 3 and still has tier 1.
C17_Witness ==
  /\ evalCall.fn = "predictRiskTrend"
  /\ evalResult # NoCall
  /\ evalResult.value.wellness = Num(30)
  /\ evalResult.value.zCodeCount = 6
  /\ evalResult.value.recommendedTier = 3
  /\ HasTier(evalResult.enrollee, 1)

\* The number of subjects of a list that pass a test.
Subjects(list, Test(_)) == Cardinality({ i \in 1..Len(list) : Test(list[i]) })

\* The subject has a tier and it is 1, 2 or 3.
Assessed(subject) ==
  /\ Has(subject, "riskProfile")
  /\ Has(subject.riskProfile, "tier")
  /\ subject.riskProfile.tier \in 1..3

\* C13 as stated: for any list of subjects, each with tier 1, 2, 3 or none,
\* the three tier counts of the risk distribution sum to the number of
\* subjects, and the three percentages of a list that is not empty sum to
\* 100 up to rounding.
C13_TierCountsSum ==
  (evalCall.fn = "calculateRiskDistribution" /\ evalResult # NoCall) =>
    LET v == evalResult.value
        total == Len(evalCall.enrollees)
    IN /\ v.tier1.num + v.tier2.num + v.tier3.num = total
       /\ total > 0 =>
            v.tier1Percent.num + v.tier2Percent.num + v.tier3Percent.num
              \in 99..101

\* C13 amended: the three tier counts of the risk distribution sum to the
\* number of subjects that have tier 1, 2 or 3, a subject with no tier being
\* counted in none; when every subject of a list that is not empty has a
\* tier, the counts sum to the number of subjects and the three percentages
\* sum to 100 up to rounding.
C13_TierCountsSumAssessed ==
  (evalCall.fn = "calculateRiskDistribution" /\ evalResult # NoCall) =>
    LET v == evalResult.value
        total == Len(evalCall.enrollees)
        assessed == Subjects(evalCall.enrollees, Assessed)
    IN /\ v.tier1.num + v.tier2.num + v.tier3.num = assessed
       /\ (total > 0 /\ assessed = total) =>
            v.tier1Percent.num + v.tier2Percent.num + v.tier3Percent.num
              \in 99..101

\* The distribution of 23 tier-1 subjects, 16 tier-2 subjects and a subject
\* with no tier counts 39 subjects; the share of tier 1, 57.5 per cent, is
\* given as 57 and that of tier 2 as 40.
C13_Witness ==
  /\ evalCall.fn = "calculateRiskDistribution"
  /\ evalCall.enrollees = Copies([riskProfile |-> [tier |-> 1]], 23)
                            \o Copies([riskProfile |-> [tier |-> 2]], 16)
                            \o << [riskProfile |-> EmptyObject] >>
  /\ evalResult # NoCall
  /\ evalResult.value.tier1 = Num(23)
  /\ evalResult.value.tier2 = Num(16)
  /\ evalResult.value.tier3 = Num(0)
  /\ evalResult.value.tier1Percent = Num(57)
  /\ evalResult.value.tier2Percent = Num(40)

\* The output is a number and neither NaN nor Infinity.
FiniteNumber(x) == IsNumber(x) /\ IsFinite(x)

FiniteDistribution(v) ==
  /\ FiniteNumber(v.tier1) /\ FiniteNumber(v.tier2) /\ FiniteNumber(v.tier3)
  /\ FiniteNumber(v.tier1Percent) /\ FiniteNumber(v.tier2Percent)
  /\ FiniteNumber(v.tier3Percent)

FiniteTrends(v) ==
  /\ FiniteNumber(v.improving) /\ FiniteNumber(v.stable)
  /\ FiniteNumber(v.declining)
  /\ FiniteNumber(v.improvingPercent) /\ FiniteNumber(v.stablePercent)
  /\ FiniteNumber(v.decliningPercent)

FiniteCounts(top) == \A i \in DOMAIN top : FiniteNumber(top[i].count)

FiniteReferrals(v) ==
  /\ FiniteNumber(v.acceptanceRate)
  /\ \A status \in DOMAIN v.statusCounts : FiniteNumber(v.statusCounts[status])
  /\ FiniteCounts(v.topResources)

FiniteDashboard(v) ==
  /\ FiniteNumber(v.totalEnrollees) /\ FiniteNumber(v.totalReferrals)
  /\ FiniteNumber(v.activeReferrals)
  /\ FiniteNumber(v.tier1Count) /\ FiniteNumber(v.tier2Count)
  /\ FiniteNumber(v.tier3Count)
  /\ FiniteNumber(v.avgWellnessScore)
  /\ \A dim \in Dimensions : FiniteNumber(v.wellnessDimensions[dim])
  /\ FiniteDistribution(v.riskDistribution)
  /\ FiniteNumber(v.zCodeAnalysis.totalZCodes)
  /\ FiniteNumber(v.zCodeAnalysis.enrolleesWithZCodes)
  /\ FiniteNumber(v.zCodeAnalysis.avgZCodesPerEnrollee)
  /\ FiniteCounts(v.zCodeAnalysis.topZCodes)
  /\ FiniteNumber(v.careTeamMetrics.totalTeamMembers)
  /\ FiniteNumber(v.careTeamMetrics.enrolleesWithTeams)
  /\ FiniteNumber(v.careTeamMetrics.avgTeamSize)
  /\ \A role \in DOMAIN v.careTeamMetrics.roleCounts :
       FiniteNumber(v.careTeamMetrics.roleCounts[role])
  /\ FiniteReferrals(v.referralMetrics)
  /\ FiniteTrends(v.trends)
  /\ FiniteCounts(v.geographicAnalysis.topZipCodes)
  /\ FiniteCounts(v.geographicAnalysis.topCities)

FiniteCohorts(v) ==
  \A i \in DOMAIN v :
    /\ FiniteNumber(v[i].count)
    /\ FiniteNumber(v[i].avgWellness)
    /\ Has(v[i], "avgRiskTier") => FiniteNumber(v[i].avgRiskTier)
    /\ Has(v[i], "avgZCodes") => FiniteNumber(v[i].avgZCodes)

AllZero(v) ==
  /\ v.tier1 = Num(0) /\ v.tier2 = Num(0) /\ v.tier3 = Num(0)
  /\ v.tier1Percent = Num(0) /\ v.tier2Percent = Num(0)
  /\ v.tier3Percent = Num(0)

\* C14: whatever the lists hold (no subject, no referral, a subject with
\* no risk profile, no scores or no codes, or any other input), an analytics
\* function throws nothing, and every count, average, percentage and rate
\* in what it returns is a number that is neither NaN nor Infinity; the
\* average wellness of an empty list is 0 and the risk distribution of an
\* empty list has all counts and percentages 0.
C14_TotalAndFinite ==
  evalResult # NoCall =>
    /\ Has(evalResult, "value")
    /\ LET v == evalResult.value
       IN /\ evalCall.fn = "calculateEnrolleeWellness" => FiniteNumber(v)
          /\ evalCall.fn = "predictRiskTrend" => FiniteNumber(v.confidence)
          /\ evalCall.fn = "calculateAverageWellness" =>
               /\ FiniteNumber(v)
               /\ Len(evalCall.enrollees) = 0 => v = Num(0)
          /\ evalCall.fn = "calculateRiskDistribution" =>
               /\ FiniteDistribution(v)
               /\ Len(evalCall.enrollees) = 0 => AllZero(v)
          /\ evalCall.fn = "calculateTrends" => FiniteTrends(v)
          /\ evalCall.fn = "analyzeReferrals" => FiniteReferrals(v)
          /\ evalCall.fn = "calculateDashboardAnalytics" =>
               /\ FiniteDashboard(v)
               /\ Len(evalCall.enrollees) = 0 =>
                    /\ v.avgWellnessScore = Num(0)
                    /\ AllZero(v.riskDistribution)
          /\ evalCall.fn = "analyzeByCohort" => FiniteCohorts(v)

\* C16: a subject is improving if its per-subject wellness is more than 10
\* points above the population average, declining if it is more than 10
\* points below, stable otherwise; each of the three counts of a trend
\* classification is the number of subjects of that kind, so the counts sum
\* to the number of subjects.
C16_TrendBuckets ==
  (evalCall.fn = "calculateTrends" /\ evalResult # NoCall) =>
    LET v == evalResult.value
        list == evalCall.enrollees
        average == calculateAverageWellness(list)
        Improving(subject) ==
          PerSubjectWellness(subject).num > average.num + 10
        Declining(subject) ==
          PerSubjectWellness(subject).num < average.num - 10
        Stable(subject) == ~Improving(subject) /\ ~Declining(subject)
    IN /\ v.improving = Num(Subjects(list, Improving))
       /\ v.declining = Num(Subjects(list, Declining))
       /\ v.stable = Num(Subjects(list, Stable))
       /\ v.improving.num + v.stable.num + v.declining.num = Len(list)

\* The subject's referral is accepted.
IsAccepted(referral) == Has(referral, "status") /\ referral.status = "Accepted"

\* round(100 * accepted / total) of a list, 0 for no referral
ExpectedRate(list) ==
  IF Len(list) = 0 THEN 0
  ELSE (200 * Subjects(list, IsAccepted) + Len(list)) \div (2 * Len(list))

\* C19: the referral acceptance rate is round(100 * Accepted / total), 0
\* when there is no referral, and lies in 0..100 -- as the referral analysis
\* returns it and as the dashboard analytics carry it.
C19_AcceptanceRate ==
  (evalResult # NoCall /\ Has(evalResult, "value")) =>
    /\ evalCall.fn = "analyzeReferrals" =>
         /\ evalResult.value.acceptanceRate = Num(ExpectedRate(evalCall.referrals))
         /\ evalResult.value.acceptanceRate.den = 1
         /\ evalResult.value.acceptanceRate.num \in 0..100
    /\ evalCall.fn = "calculateDashboardAnalytics" =>
         /\ evalResult.value.referralMetrics.acceptanceRate
              = Num(ExpectedRate(evalCall.referrals))
         /\ evalResult.value.referralMetrics.acceptanceRate.num \in 0..100

\* The tier of a total score by the thresholds: at most 11, 12 to 31, 32
\* and above.
TierOfScore(score) == IF score <= 11 THEN 1 ELSE IF score <= 31 THEN 2 ELSE 3

\* C20: the tier mapped from a total score of 0 to 43 is 1 when the score
\* is at most 11, 2 when it is 12 to 31 and 3 when it is 32 or more, and
\* every entry of the assessment timeline shown carries the tier these
\* thresholds give for the entry's own total score.
C20_TierOfTotalScore ==
  /\ (evalCall.fn = "calculateRiskTier" /\ evalResult # NoCall) =>
       evalResult.value = TierOfScore(evalCall.lscmiTotalScore)
  /\ ( /\ evalCall.fn = "createAssessmentTimeline"
       /\ evalResult # NoCall
       /\ Has(evalResult, "value") ) =>
       \A i \in 1..Len(evalResult.value) :
         evalResult.value[i].tier = TierOfScore(evalResult.value[i].totalScore)
  /\ evalCall.fn = "RiskAssessmentTimeline" =>
       \A i \in 1..Len(evalResult.assessments) :
         evalResult.assessments[i].tier
           = TierOfScore(evalResult.assessments[i].totalScore)

\* The confidence of the branch of the tier rule that gives the tier.
ConfidenceOfTier(tier) ==
  IF tier = 1 THEN Norm(75, 100)
  ELSE IF tier = 3 THEN Norm(7, 10)
  ELSE Norm(6, 10)

\* C18: the confidence returned with a recommendation lies between 0.6 and
\* 0.75 and is determined by the branch of the tier rule that fired:
\* subjects with the same recommended tier have the same confidence.
C18_ConfidenceByTier ==
  (evalCall.fn = "predictRiskTrend" /\ evalResult # NoCall) =>
    /\ ~Less(evalResult.value.confidence, Norm(6, 10))
    /\ ~Less(Norm(75, 100), evalResult.value.confidence)
    /\ evalResult.value.confidence =
         ConfidenceOfTier(evalResult.value.recommendedTier)

\* C21: when the integration is enabled and authentication or the fetch of
\* the assessments fails, the failure is caught: the step that logs it
\* fills the timeline with the local placeholder entries, says so in the
\* status and ends loading.  The view is not left loading or empty by it:
\* it is loading only while a run of the load is due or in progress, and
\* while the status says the provider is unavailable the timeline holds
\* the placeholder entries.
C21_FallbackOnIntegrationFailure ==
  /\ [][evalResult'.warnings # evalResult.warnings =>
          /\ evalResult'.warned # NoError
          /\ evalResult'.assessments = demoAssessments
          /\ evalResult'.syncStatus = "Using local data (AlayaCare unavailable)"
          /\ ~evalResult'.loading]_vars
  /\ [](evalResult.loading => (evalResult.effect \/ evalResult.loads # <<>>))
  /\ [](evalResult.syncStatus = "Using local data (AlayaCare unavailable)" =>
          evalResult.assessments = demoAssessments)

\* C21 witness: the component showed fetched assessments; a later run of
\* the load reused the client's token, its assessments request was
\* rejected, and the local entries are shown.
C21_Witness ==
  /\ evalResult.runs = 2
  /\ evalResult.loads = <<>>
  /\ evalResult.warnings = 1
  /\ evalResult.warned = "requestRejected"
  /\ evalResult.accessToken = "token"
  /\ evalResult.assessments = demoAssessments
  /\ ~evalResult.loading

\* The page AppContent's effect chooses for a role.
DefaultPage(role) ==
  IF role = "Admin" THEN "admin-portal"
  ELSE IF role = "Partner" THEN "provider-dashboard"
  ELSE "dashboard"

\* C25: on initial load, once loading has finished and before the user
\* navigates, a principal whose stored role is Admin is on the admin portal
\* and one whose stored role is Partner is on the provider dashboard,
\* whatever the order of sign-in, profile snapshot and effects.
C25_InitialPageByRole ==
  \A p \in Principals :
    ( /\ user[p]
      /\ ~permissionsLoading[p]
      /\ profile[p] # NoProfile
      /\ userRole[p] = ResolveRole(profile[p])
      /\ hasSetInitialPage[p] )
    => currentPage[p] = DefaultPage(profile[p].role)

\* C22: every rejected store write is caught at its call site and shown to
\* the user as an alert, and when the handler has finished no in-progress
\* flag of the session is left set: nothing stays switching, responding,
\* saving or submitting.
C22_WriteFailureAlerted ==
  [][\A p \in Principals :
       FailWrite(p) =>
         /\ lastRejection'[p] = "alert"
         /\ inflight'[p] = <<>> =>
              /\ ~switching'[p]
              /\ ~responding'[p]
              /\ ~saving'[p]
              /\ ~isSubmitting'[p]]_vars

\* C24: a signed-in principal can give itself any of the three roles with
\* the role switch, whether or not its profile document exists: the write
\* the control submits is one the store applies to the profile as the
\* session sees it, and when the switch write lands the role resolved from
\* the stored profile is the new role, every permission decision is the
\* one of the new role, and the profile's assignments are kept.
C24_SelfAssignedRole ==
  [][\A p \in Principals :
       /\ \A r \in ROLES :
            handleRoleSwitch(p, r) =>
              CanApply(LocalProfile(p), inflight'[p][Len(inflight'[p])])
       /\ ApplyRoleSwitch(p) =>
            LET newRole == Head(inflight[p]).newRole
            IN /\ newRole \in ROLES
               /\ ResolveRole(profile'[p]) = newRole
               /\ \A a \in DOMAIN PERMISSIONS :
                    HasPermission(ResolveRole(profile'[p]), a)
                      <=> newRole \in AllowedRoles(a)
               /\ profile[p] # NoProfile =>
                    profile'[p].assignedEnrollees = profile[p].assignedEnrollees]_vars

\* C23: whenever the enrollee the profile page is asked to show is not in
\* the store (the page's last snapshot did not find the document), the
\* page shows the not-found view: it holds no enrollee data.
C23_NotFoundView ==
  \A p \in Principals :
    ( /\ currentPage[p] = "profile"
      /\ ~enrolleeView[p].loading
      /\ ~enrolleeView[p].found )
    => enrolleeView[p].enrollee = 0

\* C26: the actions of a permission-gated page are performed only by a
\* principal whose current role holds the page's permission: the sample
\* data load and the clearing of all data with LOAD_SAMPLE_DATA, the
\* enrollment with CREATE_ENROLLEE.
C26_GatedPageActions ==
  [][\A p \in Principals :
       /\ (loadSampleData(p) \/ clearAllData(p)) =>
            HasPermission(userRole[p], "LOAD_SAMPLE_DATA")
       /\ handleSubmit(p) =>
            HasPermission(userRole[p], "CREATE_ENROLLEE")]_vars

\* The enrollees assigned in a profile document.
AssignedIn(doc) == IF doc = NoProfile THEN {} ELSE doc.assignedEnrollees

\* C27: an enrollee id in a profile's assigned list stays there as long as
\* the enrollee exists: no step takes an existing enrollee out of a list.
C27_AssignmentsKept ==
  [][\A p \in Principals :
       (AssignedIn(profile[p]) \cap enrollees') \subseteq
         AssignedIn(profile'[p])]_vars

\* C28: when the enrollment handler has finished, the new enrollee exists
\* and is in the creating principal's assigned list, or no enrollee was
\* created.
C28_EnrollmentAllOrNothing ==
  [][\A p \in Principals :
       /\ (HasWrite(p, "addEnrollee") /\ FailWrite(p)) =>
            enrollees' = enrollees
       /\ (HasWrite(p, "assign") /\ (ApplyAssign(p) \/ FailWrite(p))) =>
            (Head(inflight[p]).enrolleeId \in enrollees' =>
               Head(inflight[p]).enrolleeId \in AssignedIn(profile'[p]))]_vars

\* C29: when an enrollee is deleted, by the delete of its profile page or
\* by the clearing of all data, no profile's assigned list contains its id
\* afterwards and no remaining referral names it.
C29_NoReferenceToDeleted ==
  [][\A eid \in enrollees \ enrollees' :
       /\ \A p \in Principals : eid \notin AssignedIn(profile'[p])
       /\ \A rid \in ReferralIds :
            referrals'[rid] # NoReferral =>
              referrals'[rid].enrolleeId # eid]_vars

\* C30: the status of a PRAXIS insight changes only from Pending and only
\* to Accepted or Dismissed.
C30_InsightDecidedOnce ==
  [][(insight # NoInsight /\ insight' # insight) =>
       /\ insight.status = "Pending"
       /\ insight'.status \in {"Accepted", "Dismissed"}]_vars

====
